---- MODULE Spec2Model ----
(***************************************************************************)
(* The SSO handoff worker of vibesdk (worker/sso): the exchange endpoint   *)
(* POST /auth/vibe-access, the replay store jwt_seen, the user table       *)
(* sso_users, the process-wide JWKS cache and the session verifier.        *)
(*                                                                         *)
(* Optional values (a JSON member or a header that may be missing) are     *)
(* sets with at most one element: {} is "absent", {v} is "present with     *)
(* value v".  JavaScript truthiness is Truthy below.                       *)
(***************************************************************************)
EXTENDS Integers, Sequences, FiniteSets, TLC

(***************************************************************************)
(* Bounds of the model                                                     *)
(***************************************************************************)
\* number of exchange requests that may be in flight at the same time
NumReq == 2
\* the epoch second of the first instant of a run
T0 == 1000

(***************************************************************************)
(* Program constants                                                       *)
(***************************************************************************)
\* signVibeAccessHS256(..., 600)
SessionTtl == 600
\* setCookie(..., { maxAge: 600 })
CookieMaxAge == 600
\* expires: now + 10 * 60 * 1000
JwksTtlMs == 10 * 60 * 1000
\* cleanupOldJtis(db, olderThanSeconds = 86400)
DefaultRetention == 86400

ALLOWED_ORIGINS ==
    { "https://flexifunnels.com",
      "https://www.flexifunnels.com",
      "https://dev-app.flexifunnels.com",
      "https://app.flexifunnels.com",
      "http://flexifunnels.local.com" }

\* The environment bindings of SSOEnv (values as in the README's table).
FLEXI_ISS == "flexi"
FLEXI_AUD == "vibe-handoff"
VIBE_ISS == "vibe-edge"
VIBE_AUD == "vibe-app"
VIBE_ACCESS_SECRET == "secret-1"
VIBE_COOKIE_NAME == "vibe_access"
VIBE_COOKIE_DOMAIN == ".proxyserverless.flexifunnels.com"

(***************************************************************************)
(* Time.  Date.now() is read in whole seconds (Math.floor(Date.now()/1000))*)
(* by the claim checks and by the signer, and in milliseconds by the key   *)
(* cache.  The model's clock is the second (now) and the millisecond       *)
(* within it (ms); it moves over the instants below.                       *)
(***************************************************************************)
ReplayInstants == { T0, T0 + DefaultRetention + 1 }
ValidationInstants == { T0, T0 + 1, T0 + SessionTtl }
FarFuture == T0 + 2 * DefaultRetention
\* the milliseconds within a second the clock may show besides 0
SubSeconds == { 100, 900 }
\* Date.now() at millisecond f of second t
DateNow(t, f) == t * 1000 + f
\* Math.floor(Date.now() / 1000)
FloorSeconds(d) == d \div 1000

(***************************************************************************)
(* JavaScript helpers                                                      *)
(***************************************************************************)
\* `x` used as a condition: undefined, "" and 0 are falsy.
TruthyStr(s) == \E v \in s : v # ""
TruthyNum(s) == \E v \in s : v # 0

\* String.prototype.toLowerCase on the e-mail strings of the model.
ToLowerCase(s) ==
    IF s = "A@B.com" THEN "a@b.com"
    ELSE IF s = "C@D.com" THEN "c@d.com"
    ELSE s

\* contentType?.includes('application/json')
IncludesJson(ct) ==
    \E v \in ct : v \in { "application/json", "application/json; charset=utf-8" }

(***************************************************************************)
(* Key material.  A signature is modelled by the private key that made it  *)
(* over exactly this header and payload ("forged" matches no key); a JWK   *)
(* carries the matching public material in n.                              *)
(***************************************************************************)
JwkA == [kid |-> {"k1"}, n |-> "KA"]
JwkB == [kid |-> {"k2"}, n |-> "KB"]
JwksVersions == { <<JwkA>>, <<JwkA, JwkB>>, <<JwkB>> }
AuthorityKeys == { JwkA, JwkB }

\* crypto.subtle.verify('RSASSA-PKCS1-v1_5', publicKey, signature, message)
RsaVerify(jwk, token) == token.sig = jwk.n

(***************************************************************************)
(* verifyFlexiJWT_RS256, first half: format, header algorithm and claims,  *)
(* in the order of the code.  "" means no error.                           *)
(***************************************************************************)
ExpRejected(token, now) == TruthyNum(token.exp) /\ \E e \in token.exp : e < now
NbfRejected(token, now) == TruthyNum(token.nbf) /\ \E b \in token.nbf : b > now

\* Mutant: the header algorithm is not checked.
ClaimsError_NoAlgCheck(token, now) ==
    IF token.kind # "token" THEN "Invalid JWT format"
    ELSE IF token.iss # FLEXI_ISS THEN "Invalid issuer"
    ELSE IF token.aud # FLEXI_AUD THEN "Invalid audience"
    ELSE IF ExpRejected(token, now) THEN "Token expired"
    ELSE IF NbfRejected(token, now) THEN "Token not yet valid"
    ELSE IF ~TruthyStr(token.email) THEN "Missing email claim"
    ELSE ""

ClaimsError(token, now) ==
    IF token.kind # "token" THEN "Invalid JWT format"
    ELSE IF token.alg # "RS256" THEN "Unsupported algorithm"
    ELSE IF token.iss # FLEXI_ISS THEN "Invalid issuer"
    ELSE IF token.aud # FLEXI_AUD THEN "Invalid audience"
    ELSE IF ExpRejected(token, now) THEN "Token expired"
    ELSE IF NbfRejected(token, now) THEN "Token not yet valid"
    ELSE IF ~TruthyStr(token.email) THEN "Missing email claim"
    ELSE ""

\* jwks.keys.find((k) => k.kid === header.kid): the first match, as a set
FindKid(keys, kid) ==
    LET hits == { i \in 1..Len(keys) : keys[i].kid = kid }
    IN  IF hits = {} THEN {}
        ELSE { keys[CHOOSE i \in hits : \A j \in hits : i <= j] }

\* Mutant: an unknown key-id falls back to the first key of the set.
SelectKey_FirstKeyFallback(keys, kid) ==
    IF TruthyStr(kid) /\ FindKid(keys, kid) # {} THEN FindKid(keys, kid)
    ELSE IF Len(keys) > 0 THEN { keys[1] } ELSE {}

\* Mutant: without a key-id every key of the set is tried.
SelectKey_AnyKey(keys, kid) ==
    IF TruthyStr(kid) THEN FindKid(keys, kid)
    ELSE { keys[i] : i \in 1..Len(keys) }

\* header.kid ? jwks.keys.find(...) : jwks.keys[0]
SelectKey(keys, kid) ==
    IF TruthyStr(kid) THEN FindKid(keys, kid)
    ELSE IF Len(keys) > 0 THEN { keys[1] } ELSE {}

\* verifyFlexiJWT_RS256, second half, once the key set is there
SignatureError(token, keys) ==
    LET jwk == SelectKey(keys, token.kid)
    IN  IF jwk = {} THEN "No matching key found in JWKS"
        ELSE IF \E k \in jwk : RsaVerify(k, token) THEN ""
        ELSE "Invalid signature"

(***************************************************************************)
(* getFlexiJWKS: the cache is null ({}) or one record {data, expires}.     *)
(***************************************************************************)
\* Mutant: an entry is served up to and including its expiry.
CacheHit_Inclusive(cache, now) == \E c \in cache : c.expires >= now

\* jwksCache && jwksCache.expires > now, `now` being Date.now()
CacheHit(cache, now) == \E c \in cache : c.expires > now

\* Mutant: the expiry counts from the arrival of the key set.
NewCacheEntry_FromArrival(jwks, started, arrived) ==
    [data |-> jwks, expires |-> arrived + JwksTtlMs, started |-> started]

\* jwksCache = { data: jwks, expires: now + 10 * 60 * 1000 }, `now` being
\* the Date.now() read at the start of the call; `started` keeps that
\* instant with the entry, `arrived` is the Date.now() the key set came in.
NewCacheEntry(jwks, started, arrived) ==
    [data |-> jwks, expires |-> started + JwksTtlMs, started |-> started]

(***************************************************************************)
(* The session token (HS256).  An HMAC is modelled as the pair of the key  *)
(* and the message it was computed over.                                   *)
(***************************************************************************)
Hmac(secret, header, payload) == [key |-> secret, header |-> header, payload |-> payload]

\* Mutant: the expiry is the TTL itself, not counted from the signing.
signVibeAccessHS256_ExpIsTtl(payload, secret, ttlSeconds, now) ==
    LET header == [alg |-> "HS256", typ |-> "JWT"]
        fullPayload == [iss |-> payload.iss, aud |-> payload.aud, sub |-> payload.sub,
                        email |-> payload.email, roles |-> payload.roles,
                        iat |-> now, exp |-> ttlSeconds]
    IN  [kind |-> "token", header |-> header, payload |-> fullPayload,
         sig |-> Hmac(secret, header, fullPayload)]

signVibeAccessHS256(payload, secret, ttlSeconds, now) ==
    LET header == [alg |-> "HS256", typ |-> "JWT"]
        fullPayload == [iss |-> payload.iss, aud |-> payload.aud, sub |-> payload.sub,
                        email |-> payload.email, roles |-> payload.roles,
                        iat |-> now, exp |-> now + ttlSeconds]
    IN  [kind |-> "token", header |-> header, payload |-> fullPayload,
         sig |-> Hmac(secret, header, fullPayload)]

verifyVibeAccessHS256_AnyAlg(token, secret, now) ==
    IF token.kind # "token" THEN "Invalid JWT format"
    ELSE IF token.sig # Hmac(secret, token.header, token.payload) THEN "Invalid signature"
    ELSE IF token.payload.exp < now THEN "Token expired"
    ELSE ""

verifyVibeAccessHS256_NoSignature(token, secret, now) ==
    IF token.kind # "token" THEN "Invalid JWT format"
    ELSE IF token.header.alg # "HS256" THEN "Unsupported algorithm"
    ELSE IF token.payload.exp < now THEN "Token expired"
    ELSE ""

verifyVibeAccessHS256_NoExpiry(token, secret, now) ==
    IF token.kind # "token" THEN "Invalid JWT format"
    ELSE IF token.header.alg # "HS256" THEN "Unsupported algorithm"
    ELSE IF token.sig # Hmac(secret, token.header, token.payload) THEN "Invalid signature"
    ELSE ""

\* "" when the token is accepted, else the error thrown
verifyVibeAccessHS256(token, secret, now) ==
    IF token.kind # "token" THEN "Invalid JWT format"
    ELSE IF token.header.alg # "HS256" THEN "Unsupported algorithm"
    ELSE IF token.sig # Hmac(secret, token.header, token.payload) THEN "Invalid signature"
    ELSE IF token.payload.exp < now THEN "Token expired"
    ELSE ""

(***************************************************************************)
(* The durable store                                                       *)
(***************************************************************************)
\* Mutant: the table has no unique key on jti, every insert reports a row.
JtiInsertChanges_NoConflict(seen, jti) == 1

\* INSERT INTO jwt_seen ... ON CONFLICT(jti) DO NOTHING: result.meta.changes
JtiInsertChanges(seen, jti) == IF jti \in DOMAIN seen THEN 0 ELSE 1

JtiInsert(seen, jti, now) ==
    IF jti \in DOMAIN seen THEN seen
    ELSE [k \in DOMAIN seen \cup {jti} |-> IF k = jti THEN now ELSE seen[k]]

\* DELETE FROM jwt_seen WHERE seen_at < cutoff
JtiDeleteOlder(seen, cutoff) ==
    [k \in { j \in DOMAIN seen : ~(seen[j] < cutoff) } |-> seen[k]]

\* Mutant: the lookup ignores the case of the e-mail.
getUserByEmail_IgnoreCase(tbl, email) ==
    IF ToLowerCase(email) \in DOMAIN tbl THEN { tbl[ToLowerCase(email)] } ELSE {}

\* SELECT ... FROM sso_users WHERE email = ? (first row or null)
getUserByEmail(tbl, email) == IF email \in DOMAIN tbl THEN { tbl[email] } ELSE {}

\* INSERT ... ON CONFLICT(email) DO UPDATE
UpsertRow(tbl, email, userId, status, roles) ==
    [k \in DOMAIN tbl \cup {email} |->
        IF k = email
        THEN [user_id |-> userId, email |-> email, status |-> status, roles |-> roles]
        ELSE tbl[k]]

\* The messages of the errors a statement may be rejected with, word by
\* word: a uniqueness conflict (D1 versions that raise it in spite of ON
\* CONFLICT), a missing table, the store out of reach.
UniqueError == << "D1_ERROR:", "UNIQUE", "constraint", "failed:", "jwt_seen.jti" >>
NoTableError(name) == << "D1_ERROR:", "no", "such", "table:", name >>
NetworkError == << "Network", "connection", "lost" >>

StoreErrors ==
    { UniqueError, NoTableError("jwt_seen"), NoTableError("sso_users"), NetworkError }

\* The errors the INSERT of markJtiSeen may be rejected with, and those of
\* the SELECT of getUserByEmail.
InsertFaults(seen, jti, sch) ==
    { NetworkError }
    \cup (IF "jwt_seen" \notin sch THEN { NoTableError("jwt_seen") } ELSE {})
    \cup (IF "jwt_seen" \in sch /\ jti \in DOMAIN seen THEN { UniqueError } ELSE {})

LookupFaults(sch) ==
    { NetworkError }
    \cup (IF "sso_users" \notin sch THEN { NoTableError("sso_users") } ELSE {})

\* String.prototype.includes, on messages taken word by word
Includes(message, words) ==
    \E i \in 1..(Len(message) - Len(words) + 1) :
        SubSeq(message, i, i + Len(words) - 1) = words

\* Mutant: every error of the insert counts as "already seen".
markJtiSeenCatch_Swallow(error) == { FALSE }

\* The catch clause of markJtiSeen: { FALSE } when it returns false, {}
\* when it throws the error again.
markJtiSeenCatch(error) ==
    IF Includes(error, << "UNIQUE", "constraint" >>) THEN { FALSE } ELSE {}

\* MIGRATION_STATEMENTS: each statement by what it creates
MIGRATION_STATEMENTS ==
    << [create |-> "table", name |-> "sso_users", on |-> ""],
       [create |-> "index", name |-> "idx_sso_users_user_id", on |-> "sso_users"],
       [create |-> "index", name |-> "idx_sso_users_status", on |-> "sso_users"],
       [create |-> "table", name |-> "jwt_seen", on |-> ""],
       [create |-> "index", name |-> "idx_jwt_seen_at", on |-> "jwt_seen"] >>

SchemaObjects == { MIGRATION_STATEMENTS[i].name : i \in DOMAIN MIGRATION_STATEMENTS }

\* Mutant: the statement drops the table before creating it.
ExecStatement_Recreate(db, st) ==
    [schema |-> db.schema \cup { st.name },
     users |-> IF st.name = "sso_users" THEN << >> ELSE db.users,
     jwtSeen |-> IF st.name = "jwt_seen" THEN << >> ELSE db.jwtSeen]

\* CREATE TABLE IF NOT EXISTS / CREATE INDEX IF NOT EXISTS on the store
\* db = [schema, users, jwtSeen]: nothing happens when the object exists,
\* a table that is created has no rows.
ExecStatement(db, st) ==
    IF st.name \in db.schema THEN db
    ELSE [schema |-> db.schema \cup { st.name },
          users |-> IF st.name = "sso_users" THEN << >> ELSE db.users,
          jwtSeen |-> IF st.name = "jwt_seen" THEN << >> ELSE db.jwtSeen]

\* env.VIBE_DB.batch(statements), when it succeeds: the statements in order
RECURSIVE ExecBatch(_, _)
ExecBatch(db, stmts) ==
    IF stmts = << >> THEN db
    ELSE ExecBatch(ExecStatement(db, Head(stmts)), Tail(stmts))

(***************************************************************************)
(* Inputs: assertions (the external JWT) and exchange requests             *)
(***************************************************************************)
Nonces == { "n1", "n2" }
\* stands for "no nonce" in the histories kept per nonce
NoNonce == "(none)"

\* A correctly signed, claim-valid assertion of the authority.
BaseTok ==
    [kind |-> "token", alg |-> "RS256", kid |-> {"k1"}, iss |-> FLEXI_ISS,
     aud |-> FLEXI_AUD, sub |-> "u1", email |-> {"a@b.com"},
     exp |-> {FarFuture}, nbf |-> {}, jti |-> {"n1"}, sig |-> "KA"]

\* One member of the assertion changed at a time.
TokVariants(t) ==
    { [t EXCEPT !.kind = k] : k \in { "malformed", "empty" } }
    \cup { [t EXCEPT !.alg = a] : a \in { "none", "HS256" } }
    \cup { [t EXCEPT !.kid = k] : k \in { {}, {"k2"}, {"k9"} } }
    \cup { [t EXCEPT !.iss = "evil"], [t EXCEPT !.aud = "other"] }
    \cup { [t EXCEPT !.exp = e] : e \in { {}, {0}, {T0 - 1}, {T0 + 1} } }
    \cup { [t EXCEPT !.nbf = b] : b \in { {0}, {T0}, {T0 + 1} } }
    \cup { [t EXCEPT !.email = m] : m \in { {}, {""}, {"A@B.com"}, {"c@d.com"} } }
    \cup { [t EXCEPT !.jti = j] : j \in { {}, {""} } }
    \cup { [t EXCEPT !.sig = g] : g \in { "KB", "KX", "forged" } }

BaseReq(tok) ==
    [origin |-> {}, method |-> "POST", ctype |-> {"application/json"},
     json |-> TRUE, jwt |-> {tok}, email |-> {"a@b.com"}]

\* One part of the request changed at a time.
ReqVariants(q) ==
    { [q EXCEPT !.origin = o] :
        o \in { {"https://flexifunnels.com"}, {"https://evil.example"}, {""} } }
    \cup { [q EXCEPT !.method = "OPTIONS"] }
    \cup { [q EXCEPT !.ctype = c] :
             c \in { {}, {"text/plain"}, {"application/json; charset=utf-8"} } }
    \cup { [q EXCEPT !.json = FALSE], [q EXCEPT !.jwt = {}] }
    \cup { [q EXCEPT !.email = m] : m \in { {}, {""}, {"A@B.com"}, {"c@d.com"} } }

\* The request of the replay scenarios: a valid assertion with a far
\* expiry and nonce n1, replayed.
ReplayInputs == { BaseReq(BaseTok) }

\* The requests of the store scenarios: that one, and the same assertion
\* without a nonce.
StoreInputs == ReplayInputs \cup { BaseReq([BaseTok EXCEPT !.jti = {}]) }

\* The requests of the validation scenarios: up to two deviations from the
\* valid request, one in the assertion and one in the request around it.
OneOff == { BaseTok } \cup TokVariants(BaseTok)
TwoOff ==
    { [BaseTok EXCEPT !.exp = e, !.sig = g] : e \in { {0}, {T0 - 1} }, g \in { "forged", "KX" } }
    \cup { [BaseTok EXCEPT !.alg = a, !.sig = g] : a \in { "none", "HS256" }, g \in { "forged", "KB" } }
    \cup { [BaseTok EXCEPT !.alg = "none", !.exp = e] : e \in { {}, {T0 - 1} } }
    \cup { [BaseTok EXCEPT !.kid = {"k9"}, !.sig = g] : g \in { "KB", "forged" } }
    \cup { [BaseTok EXCEPT !.kid = {"k2"}, !.sig = "KB"] }
ValidationInputs ==
    { BaseReq(t) : t \in OneOff \cup TwoOff }
    \cup ReqVariants(BaseReq(BaseTok))
    \cup { [BaseReq(t) EXCEPT !.origin = {"https://evil.example"}] :
             t \in { [BaseTok EXCEPT !.kind = "malformed"], [BaseTok EXCEPT !.sig = "KX"] } }

\* The requests of the key scenarios: assertions with a valid signature of
\* either key of the authority, naming the key, the other key or none, in
\* a body whose e-mail differs from the assertion's (such a request ends
\* after the signature check, with 401 EMAIL_MISMATCH when the signature
\* was accepted).
KeyInputs ==
    { [BaseReq([BaseTok EXCEPT !.kid = k, !.sig = g]) EXCEPT !.email = {"c@d.com"}] :
        k \in { {}, {"k2"} }, g \in { "KA", "KB" } }

\* The request of the concurrent key scenarios: the one of them that names
\* no key and is signed by the authority's first key.
RaceInputs ==
    { q \in KeyInputs : \A t \in q.jwt : t.kid = {} /\ t.sig = "KA" }

\* The requests of the claim scenarios: assertions with every combination
\* of a right or wrong issuer and audience, an expiry that is absent, zero,
\* negative, past, now or future, a not-before likewise, and an e-mail that
\* is absent, empty or present; their signature is forged, so that none
\* goes further than the signature check.
ClaimInputs ==
    { BaseReq([BaseTok EXCEPT !.iss = i, !.aud = a, !.exp = e, !.nbf = b,
                              !.email = m, !.sig = "forged"]) :
        i \in { FLEXI_ISS, "evil" }, a \in { FLEXI_AUD, "other" },
        e \in { {}, {0}, {-5}, {T0 - 1}, {T0}, {T0 + 1}, {FarFuture} },
        b \in { {}, {0}, {T0 - 1}, {T0}, {T0 + 1}, {FarFuture} },
        m \in { {}, {""}, {"a@b.com"} } }

\* The seconds the claims are checked at.
ClaimInstants == { T0, T0 + 1 }

\* The key sets the endpoint may serve in the key scenarios: those of
\* JwksVersions and the empty one.
KeySets == JwksVersions \cup { << >> }

\* The second a cache entry made at T0 expires, and the seconds an entry
\* made at T0 + 1 is made and still served.
CacheInstants == { T0, T0 + 1, T0 + (JwksTtlMs \div 1000) }

(***************************************************************************)
(* State                                                                   *)
(***************************************************************************)
VARIABLES
    now,        \* the clock, in seconds
    ms,         \* the clock: the millisecond within the second
    schema,     \* the tables and indexes that exist in the store
    users,      \* table sso_users: email -> row
    jwtSeen,    \* table jwt_seen: jti -> seen_at
    jwksCache,  \* jose.ts jwksCache: {} (null) or {[data, expires, started]}
    jwksRemote, \* the key set the authority's endpoint serves now
    req,        \* the exchange requests in flight, by slot
    last,       \* output: the exchange request answered by the step just taken
    me,         \* output: the GET /auth/me answered by the step just taken
    gw,         \* output: the request outside the exchange answered by the step just taken
    inflight,   \* the requests outside the exchange that wait at an await, by slot
    sess,       \* a session token signed by signVibeAccessHS256 and its last verification
    jtiCalls,   \* history: markJtiSeen calls that returned, per nonce
    jtiTrue,    \* history: markJtiSeen calls that returned true, per nonce
    gcRemoved,  \* history: nonces cleanupOldJtis has deleted
    gcCutoff,   \* the cutoff of a cleanupOldJtis call whose DELETE the store has yet to execute
    okCount,    \* history: exchanges answered 204, per nonce (NoNonce: without one)
    trail       \* history: the cookies presented at a logout, and those a handoff redirect was issued for

vars == << now, ms, schema, users, jwtSeen, jwksCache, jwksRemote, req, last, me, gw, inflight, sess,
           jtiCalls, jtiTrue, gcRemoved, gcCutoff, okCount, trail >>

Slots == 1..NumReq

NoResp == [status |-> 0, code |-> "", cookie |-> {}]

\* A slot no request occupies.  Besides the handler's position (pc) and its
\* locals (t0: the second verifyFlexiJWT_RS256 and getFlexiJWKS read the
\* clock at), a slot records what the request observed: keys (the key set
\* getFlexiJWKS returned), key (the JWK the signature was checked
\* against), isNew (markJtiSeen's result), seenBefore
\* (whether the nonce had been recorded before that call), raced (whether
\* another request was waiting at the replay guard with the same nonce),
\* user (the row the lookup returned), hit (the cache entry getFlexiJWKS
\* served it), over (the cache its own fetch result replaced), error (the
\* message of the error verifyFlexiJWT_RS256 threw), fault (the error a
\* statement sent to the store was rejected with), d0 (the Date.now()
\* getFlexiJWKS read), served (what the key endpoint answered to its fetch)
\* and the steps it went through.
IdleSlot ==
    [pc |-> "idle", in |-> BaseReq(BaseTok), t0 |-> 0, keys |-> {}, key |-> {},
     isNew |-> {}, seenBefore |-> {}, raced |-> FALSE, user |-> {}, looked |-> FALSE,
     hit |-> {}, over |-> {}, error |-> "", fault |-> {}, d0 |-> 0, served |-> {},
     ins |-> {},
     resp |-> NoResp,
     steps |-> << >>]

NoMe == [cookie |-> {}, at |-> 0, status |-> 0, code |-> "", body |-> {}]

\* No session token signed yet.  Otherwise sess.made holds the token with
\* the arguments and the second of the signVibeAccessHS256 call, and
\* sess.checked the arguments, second and result of the last
\* verifyVibeAccessHS256 call on it.
NoSess == [made |-> {}, checked |-> {}]

\* No request outside the exchange answered, or none in the slot.
\* Otherwise the record holds the request (in), the handler's position
\* (pc: the await it waits at, or "done"), the second the handler read the
\* clock at (at: for /auth/me and the protected prefix, the second the
\* cookie was verified at), the second of the answer (end), the verified
\* session payload, the requests the worker sent to the upstream while
\* handling it, what the upstream did with them, the statements sent to the
\* store, whether the store has executed them (exec), and the response.
NoGw == [pc |-> "idle", at |-> 0, end |-> 0, session |-> {}, upstream |-> << >>,
         outcome |-> {}, resp |-> {}, route |-> "", env |-> {}, sql |-> << >>,
         exec |-> FALSE]

InitUsers ==
    { << >>,
      UpsertRow(<< >>, "a@b.com", "u1", "active", "viewer"),
      UpsertRow(<< >>, "a@b.com", "u1", "suspended", "viewer") }

\* The worker and its surroundings at the start: nothing cached, nothing in
\* flight, nothing answered.
InitWorker ==
    /\ now = T0
    /\ ms = 0
    /\ gcCutoff = {}
    /\ jwksCache = {}
    /\ jwksRemote = <<JwkA>>
    /\ req = [r \in Slots |-> IdleSlot]
    /\ last = IdleSlot
    /\ me = NoMe
    /\ gw = NoGw
    /\ inflight = [r \in Slots |-> NoGw]
    /\ sess = NoSess
    /\ jtiCalls = [n \in Nonces |-> 0]
    /\ jtiTrue = [n \in Nonces |-> 0]
    /\ gcRemoved = {}
    /\ okCount = [n \in Nonces \cup { NoNonce } |-> 0]
    /\ trail = [logout |-> {}, handoff |-> {}]

\* The store of a deployment whose migrations have been applied.
Init ==
    /\ InitWorker
    /\ schema = SchemaObjects
    /\ users \in InitUsers
    /\ jwtSeen = << >>

\* The key and claim scenarios need no user.
InitJwks ==
    /\ InitWorker
    /\ schema = SchemaObjects
    /\ users = << >>
    /\ jwtSeen = << >>

\* The store of a deployment before or after its migrations.
InitGateway ==
    /\ InitWorker
    /\ schema \in { {}, SchemaObjects }
    /\ users \in IF "sso_users" \in schema THEN InitUsers ELSE { << >> }
    /\ jwtSeen \in IF "jwt_seen" \in schema
                    THEN { << >>, JtiInsert(<< >>, "n1", T0) } ELSE { << >> }

(***************************************************************************)
(* Responses                                                               *)
(***************************************************************************)
\* errorResponse(code, error, status, ...): a JSON error, never a cookie
errorResponse(code, status) == [status |-> status, code |-> code, cookie |-> {}]

\* An option that was not given takes its default.
OptionOr(o, default) == IF o = {} THEN default ELSE CHOOSE v \in o : TRUE

NoOptions ==
    [domain |-> {}, maxAge |-> {}, path |-> {}, httpOnly |-> {}, secure |-> {},
     sameSite |-> {}]

\* setCookie(headers, name, value, options): the Set-Cookie header it
\* appends, by attribute.  Domain is written when options.domain is truthy,
\* Max-Age when options.maxAge is defined (0 included).  The name and the
\* value stand as given: encodeURIComponent escapes no character of
\* VIBE_COOKIE_NAME, of a compact JWT or of the empty string.
setCookie(name, value, options) ==
    [name |-> name, value |-> value,
     domain |-> IF TruthyStr(options.domain) THEN options.domain ELSE {},
     maxAge |-> options.maxAge,
     path |-> OptionOr(options.path, "/"),
     httpOnly |-> OptionOr(options.httpOnly, TRUE),
     secure |-> OptionOr(options.secure, TRUE),
     sameSite |-> OptionOr(options.sameSite, "Lax")]

\* Mutant: the cookie is cleared without the options it was set with.
clearCookie_HostOnly(name, options) ==
    setCookie(name, "", [NoOptions EXCEPT !.maxAge = {0}])

\* clearCookie(headers, name, options): options has domain and path only
clearCookie(name, options) ==
    setCookie(name, "", [options EXCEPT !.maxAge = {0}, !.httpOnly = {TRUE},
                                        !.secure = {TRUE}, !.sameSite = {"Lax"}])

\* setCookie(headers, name, value, options) as handleVibeAccess calls it
SessionCookie(token) ==
    setCookie(VIBE_COOKIE_NAME, token,
              [domain |-> {VIBE_COOKIE_DOMAIN}, maxAge |-> {CookieMaxAge},
               path |-> {"/"}, httpOnly |-> {TRUE}, secure |-> {TRUE},
               sameSite |-> {"None"}])

Finish(s, resp, step) ==
    [s EXCEPT !.pc = "done", !.resp = resp, !.steps = Append(s.steps, step)]

TheJwt(s) == CHOOSE t \in s.in.jwt : TRUE
TheJti(s) == CHOOSE j \in TheJwt(s).jti : TRUE
BodyEmail(s) == CHOOSE e \in s.in.email : TRUE

Bump(c) == IF c < 2 THEN c + 1 ELSE 2

(***************************************************************************)
(* fetch(): handleCORS, then the route                                     *)
(***************************************************************************)
\* The headers of handleCORS's answer to a preflight request.
PreflightHeaders(origin) ==
    [n \in { "access-control-allow-origin", "access-control-allow-methods",
             "access-control-allow-headers", "access-control-allow-credentials",
             "access-control-max-age" } |->
        IF n = "access-control-allow-origin" THEN origin
        ELSE IF n = "access-control-allow-methods" THEN "POST, GET, OPTIONS"
        ELSE IF n = "access-control-allow-headers"
        THEN "Content-Type, X-Requested-With, Authorization"
        ELSE IF n = "access-control-allow-credentials" THEN "true"
        ELSE "86400"]

\* new Response(null, { status: 204, headers: ... }) of handleCORS
Preflight(origin) ==
    [status |-> 204, code |-> "PREFLIGHT", cookie |-> {},
     headers |-> PreflightHeaders(origin)]

\* Mutant: an origin off the allow-list is let through.
handleCORS_NoAllowList(q) ==
    IF ~TruthyStr(q.origin) THEN {}
    ELSE IF q.method = "OPTIONS" /\ q.origin \subseteq ALLOWED_ORIGINS
         THEN { Preflight(CHOOSE o \in q.origin : TRUE) }
    ELSE {}

\* Mutant: a preflight request goes on to the route like any other.
handleCORS_NoPreflight(q) ==
    IF ~TruthyStr(q.origin) THEN {}
    ELSE IF ~(q.origin \subseteq ALLOWED_ORIGINS)
         THEN { errorResponse("FORBIDDEN", 403) }
    ELSE {}

\* handleCORS(request): {} (null, go on) or the response
handleCORS(q) ==
    IF ~TruthyStr(q.origin) THEN {}
    ELSE IF ~(q.origin \subseteq ALLOWED_ORIGINS)
         THEN { errorResponse("FORBIDDEN", 403) }
    ELSE IF q.method = "OPTIONS" THEN { Preflight(CHOOSE o \in q.origin : TRUE) }
    ELSE {}

AfterKeys_AlwaysGuard(s, keys) ==
    LET tok == TheJwt(s)
        s1 == [s EXCEPT !.keys = {keys}, !.key = SelectKey(keys, tok.kid),
                        !.steps = Append(s.steps, "signature")]
    IN  IF SignatureError(tok, keys) # ""
        THEN Finish([s1 EXCEPT !.error = SignatureError(tok, keys)],
                    errorResponse("JWT_INVALID", 401), "401")
        ELSE IF ToLowerCase(CHOOSE e \in tok.email : TRUE) # ToLowerCase(BodyEmail(s))
        THEN Finish(s1, errorResponse("EMAIL_MISMATCH", 401), "401")
        ELSE [s1 EXCEPT !.pc = "jti", !.steps = Append(s1.steps, "email")]

\* Mutant: the e-mail of the body is not compared with the assertion's.
AfterKeys_NoEmailCheck(s, keys) ==
    LET tok == TheJwt(s)
        s1 == [s EXCEPT !.keys = {keys}, !.key = SelectKey(keys, tok.kid),
                        !.steps = Append(s.steps, "signature")]
    IN  IF SignatureError(tok, keys) # ""
        THEN Finish([s1 EXCEPT !.error = SignatureError(tok, keys)],
                    errorResponse("JWT_INVALID", 401), "401")
        ELSE IF TruthyStr(tok.jti)
        THEN [s1 EXCEPT !.pc = "jti", !.steps = Append(s1.steps, "email")]
        ELSE [s1 EXCEPT !.pc = "user", !.steps = Append(s1.steps, "email")]

\* verifyFlexiJWT_RS256 after getFlexiJWKS returned `keys`, then the e-mail
\* comparison of handleVibeAccess; the request goes on to the replay guard
\* (pc "jti"), or to the user lookup when the assertion has no jti.
AfterKeys(s, keys) ==
    LET tok == TheJwt(s)
        s1 == [s EXCEPT !.keys = {keys}, !.key = SelectKey(keys, tok.kid),
                        !.steps = Append(s.steps, "signature")]
    IN  IF SignatureError(tok, keys) # ""
        THEN Finish([s1 EXCEPT !.error = SignatureError(tok, keys)],
                    errorResponse("JWT_INVALID", 401), "401")
        ELSE IF ToLowerCase(CHOOSE e \in tok.email : TRUE) # ToLowerCase(BodyEmail(s))
        THEN Finish(s1, errorResponse("EMAIL_MISMATCH", 401), "401")
        ELSE IF TruthyStr(tok.jti)
        THEN [s1 EXCEPT !.pc = "jti", !.steps = Append(s1.steps, "email")]
        ELSE [s1 EXCEPT !.pc = "user", !.steps = Append(s1.steps, "email")]

\* handleVibeAccess up to the first await that touches shared state: body,
\* verifyFlexiJWT_RS256's header and claims checks, getFlexiJWKS's cache test;
\* d is Date.now().
VibeAccessStart(s, cache, d) ==
    LET q == s.in
        JwtTruthy == \E j \in q.jwt : j.kind # "empty"
    IN  IF ~q.json THEN Finish(s, errorResponse("INVALID_BODY", 400), "400")
        ELSE IF ~JwtTruthy \/ ~TruthyStr(q.email)
        THEN Finish(s, errorResponse("INVALID_BODY", 400), "400")
        ELSE LET t == FloorSeconds(d)
                 s1 == [s EXCEPT !.t0 = t, !.d0 = d, !.steps = << "body", "claims" >>]
             IN  IF ClaimsError(TheJwt(s), t) # ""
                 THEN Finish([s1 EXCEPT !.error = ClaimsError(TheJwt(s), t)],
                             errorResponse("JWT_INVALID", 401), "401")
                 ELSE IF CacheHit(cache, d)
                 THEN AfterKeys([s1 EXCEPT !.hit = cache,
                                           !.steps = Append(s1.steps, "jwks-cache")],
                                (CHOOSE c \in cache : TRUE).data)
                 ELSE [s1 EXCEPT !.pc = "fetch",
                                 !.steps = Append(s1.steps, "jwks-fetch")]

\* The worker's fetch() for a request to /auth/vibe-access.
Dispatch(s, cache, d) ==
    LET q == s.in
        cors == handleCORS(q)
    IN  IF cors # {} THEN Finish(s, CHOOSE c \in cors : TRUE, "cors")
        ELSE IF q.method # "POST"
        THEN Finish(s, [status |-> 404, code |-> "Not Found", cookie |-> {}], "404")
        ELSE IF ~IncludesJson(q.ctype)
        THEN Finish(s, errorResponse("INVALID_CONTENT_TYPE", 400), "400")
        ELSE VibeAccessStart(s, cache, d)

\* The request in slot r has reached s: it waits at its next suspension
\* point, or its response is sent and the slot is free again.
Settle(r, s) ==
    /\ req' = [req EXCEPT ![r] = IF s.pc = "done" THEN IdleSlot ELSE s]
    /\ last' = IF s.pc = "done" THEN s ELSE IdleSlot
    /\ me' = NoMe
    /\ gw' = NoGw /\ inflight' = inflight
    /\ sess' = sess /\ trail' = trail
    /\ schema' = schema

\* A request arrives in slot r and runs to its first suspension point.
Receive(r, q) ==
    /\ req[r].pc = "idle"
    /\ Settle(r, Dispatch([IdleSlot EXCEPT !.in = q], jwksCache, DateNow(now, ms)))
    /\ UNCHANGED << now, ms, users, jwtSeen, jwksCache, jwksRemote,
                    jtiCalls, jtiTrue, gcRemoved, gcCutoff, okCount >>

\* What the key endpoint may answer to a fetch: a key set, a status that
\* is not OK, or a body that is no JSON.
JwksAnswers == { "keys", "not-ok", "not-json" }

\* The message of the error getFlexiJWKS throws on such an answer, and of
\* the one fetch() rejects with.
FetchError(kind) ==
    IF kind = "not-ok" THEN "Failed to fetch JWKS: 500"
    ELSE IF kind = "not-json" THEN "Unexpected token '<', \"<html>\" is not valid JSON"
    ELSE "Network connection lost"

\* The key endpoint answers the fetch of the request in slot r: with the
\* key set it serves at that moment, or with something else.
JwksAnswer(r, a) ==
    /\ req[r].pc = "fetch"
    /\ req[r].served = {}
    /\ Settle(r, [req[r] EXCEPT !.served =
                     { [kind |-> a, keys |-> IF a = "keys" THEN jwksRemote ELSE << >>] }])
    /\ UNCHANGED << now, ms, users, jwtSeen, jwksCache, jwksRemote,
                    jtiCalls, jtiTrue, gcRemoved, gcCutoff, okCount >>

\* Mutant: when the fetch fails, the key set of the cache, if any, is used.
FetchReturn_StaleFallback(r, ok) ==
    /\ req[r].pc = "fetch"
    /\ ok => req[r].served # {}
    /\ LET kind == IF ok THEN (CHOOSE a \in req[r].served : TRUE).kind ELSE "rejects"
       IN  IF kind = "keys"
           THEN LET keys == (CHOOSE a \in req[r].served : TRUE).keys
                IN  /\ jwksCache' = { NewCacheEntry(keys, req[r].d0, DateNow(now, ms)) }
                    /\ Settle(r, AfterKeys([req[r] EXCEPT !.over = jwksCache], keys))
           ELSE /\ jwksCache' = jwksCache
                /\ IF jwksCache # {}
                   THEN Settle(r, AfterKeys(req[r], (CHOOSE c \in jwksCache : TRUE).data))
                   ELSE Settle(r, Finish([req[r] EXCEPT !.error = FetchError(kind)],
                                         errorResponse("JWT_INVALID", 401), "401"))
    /\ UNCHANGED << now, ms, users, jwtSeen, jwksRemote,
                    jtiCalls, jtiTrue, gcRemoved, gcCutoff, okCount >>

\* getFlexiJWKS after its awaits: fetch() resolves with what the endpoint
\* answered (ok) or rejects.  A key set replaces the cache; a status that
\* is not OK, a body that is no JSON and a rejection end the request.
FetchReturn(r, ok) ==
    /\ req[r].pc = "fetch"
    /\ ok => req[r].served # {}
    /\ LET kind == IF ok THEN (CHOOSE a \in req[r].served : TRUE).kind ELSE "rejects"
       IN  IF kind = "keys"
           THEN LET keys == (CHOOSE a \in req[r].served : TRUE).keys
                IN  /\ jwksCache' = { NewCacheEntry(keys, req[r].d0, DateNow(now, ms)) }
                    /\ Settle(r, AfterKeys([req[r] EXCEPT !.over = jwksCache], keys))
           ELSE /\ jwksCache' = jwksCache
                /\ Settle(r, Finish([req[r] EXCEPT !.error = FetchError(kind)],
                                    errorResponse("JWT_INVALID", 401), "401"))
    /\ UNCHANGED << now, ms, users, jwtSeen, jwksRemote,
                    jtiCalls, jtiTrue, gcRemoved, gcCutoff, okCount >>

\* The nonce n had been recorded by the INSERT of another request than
\* the one in slot r: of one whose markJtiSeen has returned true, or of one
\* that still waits for its result.
RecordedBefore(r, n) ==
    \/ jtiTrue[n] > 0
    \/ \E o \in Slots \ {r} :
          /\ req[o].pc = "jti" /\ TheJti(req[o]) = n
          /\ \E i \in req[o].ins : i.changes > 0

\* The store executes the INSERT ... ON CONFLICT DO NOTHING statement of
\* markJtiSeen for the request in slot r, with unixepoch() as seen_at.
InsertJti(r) ==
    /\ req[r].pc = "jti"
    /\ req[r].ins = {}
    /\ "jwt_seen" \in schema
    /\ LET n == TheJti(req[r])
       IN  /\ jwtSeen' = JtiInsert(jwtSeen, n, now)
           /\ Settle(r, [req[r] EXCEPT !.ins =
                             { [changes |-> JtiInsertChanges(jwtSeen, n),
                                prior |-> RecordedBefore(r, n)] }])
    /\ UNCHANGED << now, ms, users, jwksCache, jwksRemote,
                    jtiCalls, jtiTrue, gcRemoved, gcCutoff, okCount >>

\* The result of the INSERT reaches markJtiSeen(db, payload.jti), which
\* returns (result.meta.changes || 0) > 0; then handleVibeAccess's test of
\* what it returned.
MarkJtiSeen(r) ==
    /\ req[r].pc = "jti"
    /\ req[r].ins # {}
    /\ LET n == TheJti(req[r])
           result == CHOOSE i \in req[r].ins : TRUE
           isNew == result.changes > 0
           s1 == [req[r] EXCEPT !.isNew = {isNew},
                                !.seenBefore = {result.prior},
                                !.raced = \E o \in Slots \ {r} :
                                             req[o].pc = "jti" /\ TheJti(req[o]) = n,
                                !.steps = Append(req[r].steps, "replay")]
       IN  /\ jtiCalls' = [jtiCalls EXCEPT ![n] = Bump(@)]
           /\ jtiTrue' = [jtiTrue EXCEPT ![n] = IF isNew THEN Bump(@) ELSE @]
           /\ Settle(r, IF isNew THEN [s1 EXCEPT !.pc = "user"]
                         ELSE Finish(s1, errorResponse("REPLAYED_JTI", 409), "409"))
    /\ UNCHANGED << now, ms, users, jwtSeen, jwksCache, jwksRemote, gcRemoved, gcCutoff,
                    okCount >>

UserResponse_AssertionSub(s, t) ==
    LET user == s.user
        s1 == [s EXCEPT !.steps = Append(s.steps, "user")]
    IN  IF user = {} THEN Finish(s1, errorResponse("USER_NOT_ALLOWED", 403), "403")
        ELSE LET u == CHOOSE x \in user : TRUE
             IN  IF u.status = "suspended"
                 THEN Finish(s1, errorResponse("USER_SUSPENDED", 403), "403")
                 ELSE Finish(s1,
                        [status |-> 204, code |-> "",
                         cookie |-> { SessionCookie(signVibeAccessHS256(
                                        [iss |-> VIBE_ISS, aud |-> VIBE_AUD,
                                         sub |-> TheJwt(s).sub, email |-> u.email,
                                         roles |-> u.roles],
                                        VIBE_ACCESS_SECRET, SessionTtl, t)) }],
                        "204")

\* getUserByEmail(db, email) returns the row the store read (s.user); then
\* the status test, the signing of the session token at second t and the
\* Set-Cookie of handleVibeAccess.
UserResponse(s, t) ==
    LET user == s.user
        s1 == [s EXCEPT !.steps = Append(s.steps, "user")]
    IN  IF user = {} THEN Finish(s1, errorResponse("USER_NOT_ALLOWED", 403), "403")
        ELSE LET u == CHOOSE x \in user : TRUE
             IN  IF u.status = "suspended"
                 THEN Finish(s1, errorResponse("USER_SUSPENDED", 403), "403")
                 ELSE Finish(s1,
                        [status |-> 204, code |-> "",
                         cookie |-> { SessionCookie(signVibeAccessHS256(
                                        [iss |-> VIBE_ISS, aud |-> VIBE_AUD,
                                         sub |-> u.user_id, email |-> u.email,
                                         roles |-> u.roles],
                                        VIBE_ACCESS_SECRET, SessionTtl, t)) }],
                        "204")

\* The store executes the SELECT of getUserByEmail for the request in
\* slot r.
UserSelect(r) ==
    /\ req[r].pc = "user"
    /\ ~req[r].looked
    /\ "sso_users" \in schema
    /\ Settle(r, [req[r] EXCEPT !.user = getUserByEmail(users, BodyEmail(req[r])),
                                !.looked = TRUE])
    /\ UNCHANGED << now, ms, users, jwtSeen, jwksCache, jwksRemote,
                    jtiCalls, jtiTrue, gcRemoved, gcCutoff, okCount >>

\* The result of the SELECT reaches handleVibeAccess, which answers.
UserLookup(r) ==
    /\ req[r].pc = "user"
    /\ req[r].looked
    /\ Settle(r, UserResponse(req[r], now))
    /\ okCount' = IF last'.resp.status = 204
                  THEN [okCount EXCEPT ![IF TruthyStr(TheJwt(req[r]).jti)
                                         THEN TheJti(req[r]) ELSE NoNonce] = Bump(@)]
                  ELSE okCount
    /\ UNCHANGED << now, ms, users, jwtSeen, jwksCache, jwksRemote,
                    jtiCalls, jtiTrue, gcRemoved, gcCutoff >>

\* markJtiSeen(db, payload.jti) when the await of the INSERT rejects with
\* error e, before the store executed the statement or after it did (the
\* row is written, the result does not arrive): the catch clause of
\* markJtiSeen, then handleVibeAccess's test of the result or its own
\* catch clause.
MarkJtiSeenThrows(r, e) ==
    /\ req[r].pc = "jti"
    /\ e \in IF req[r].ins = {} THEN InsertFaults(jwtSeen, TheJti(req[r]), schema)
             ELSE { NetworkError }
    /\ LET n == TheJti(req[r])
           caught == markJtiSeenCatch(e)
           s1 == [req[r] EXCEPT !.fault = { [op |-> "insert", error |-> e] },
                                !.isNew = caught,
                                !.seenBefore =
                                   { IF req[r].ins = {} THEN RecordedBefore(r, n)
                                     ELSE (CHOOSE i \in req[r].ins : TRUE).prior },
                                !.raced = \E o \in Slots \ {r} :
                                             req[o].pc = "jti" /\ TheJti(req[o]) = n,
                                !.steps = Append(req[r].steps, "replay")]
       IN  /\ jtiCalls' = IF caught = {} THEN jtiCalls
                          ELSE [jtiCalls EXCEPT ![n] = Bump(@)]
           /\ Settle(r, IF caught = {}
                         THEN Finish(s1, errorResponse("INTERNAL_ERROR", 500), "500")
                         ELSE Finish(s1, errorResponse("REPLAYED_JTI", 409), "409"))
    /\ UNCHANGED << now, ms, users, jwtSeen, jwksCache, jwksRemote, jtiTrue, gcRemoved, gcCutoff,
                    okCount >>

\* getUserByEmail(env.VIBE_DB, email) when the store rejects the SELECT
\* with error e (a SELECT writes nothing: a rejection after the store read
\* the row leaves the same state): the catch clause of handleVibeAccess.
UserLookupThrows(r, e) ==
    /\ req[r].pc = "user"
    /\ ~req[r].looked
    /\ e \in LookupFaults(schema)
    /\ Settle(r, Finish([req[r] EXCEPT !.fault = { [op |-> "lookup", error |-> e] },
                                        !.steps = Append(req[r].steps, "user")],
                        errorResponse("INTERNAL_ERROR", 500), "500"))
    /\ UNCHANGED << now, ms, users, jwtSeen, jwksCache, jwksRemote,
                    jtiCalls, jtiTrue, gcRemoved, gcCutoff, okCount >>

(***************************************************************************)
(* The environment: clock, administration of the store, key rotation       *)
(***************************************************************************)
\* A step that answers no request.
Silent ==
    /\ last' = IdleSlot /\ me' = NoMe /\ gw' = NoGw /\ inflight' = inflight
    /\ sess' = sess /\ trail' = trail /\ schema' = schema

\* The clock moves on to second t, whatever is in flight.
Tick(t) ==
    /\ t > now
    /\ now' = t
    /\ ms' = 0
    /\ Silent
    /\ UNCHANGED << users, jwtSeen, jwksCache, jwksRemote, req,
                    jtiCalls, jtiTrue, gcRemoved, gcCutoff, okCount >>

\* The clock moves on within its second, to millisecond f.
TickMs(f) ==
    /\ f > ms
    /\ ms' = f
    /\ Silent
    /\ UNCHANGED << now, users, jwtSeen, jwksCache, jwksRemote, req,
                    jtiCalls, jtiTrue, gcRemoved, gcCutoff, okCount >>

\* upsertUser(db, email, userId, status, roles)
UpsertUser(email, userId, status, roles) ==
    /\ "sso_users" \in schema
    /\ users' = UpsertRow(users, email, userId, status, roles)
    /\ users' # users
    /\ Silent
    /\ UNCHANGED << now, ms, jwtSeen, jwksCache, jwksRemote, req,
                    jtiCalls, jtiTrue, gcRemoved, gcCutoff, okCount >>

\* cleanupOldJtis(db, olderThanSeconds) is called: it computes the cutoff
\* and sends the DELETE to the store (one call at a time).
CleanupOldJtis(olderThanSeconds) ==
    /\ gcCutoff = {}
    /\ gcCutoff' = { now - olderThanSeconds }
    /\ Silent
    /\ UNCHANGED << now, ms, users, jwtSeen, jwksCache, jwksRemote, req,
                    jtiCalls, jtiTrue, gcRemoved, okCount >>

\* The store executes the DELETE of the cleanupOldJtis call.
CleanupDelete ==
    /\ gcCutoff # {}
    /\ LET cutoff == CHOOSE c \in gcCutoff : TRUE
       IN  /\ jwtSeen' = JtiDeleteOlder(jwtSeen, cutoff)
           /\ gcRemoved' = gcRemoved \cup (DOMAIN jwtSeen \ DOMAIN jwtSeen')
    /\ gcCutoff' = {}
    /\ Silent
    /\ UNCHANGED << now, ms, users, jwksCache, jwksRemote, req,
                    jtiCalls, jtiTrue, okCount >>

\* The authority publishes another key set.
RotateJwks(v) ==
    /\ v # jwksRemote
    /\ jwksRemote' = v
    /\ Silent
    /\ UNCHANGED << now, ms, users, jwtSeen, jwksCache, req,
                    jtiCalls, jtiTrue, gcRemoved, gcCutoff, okCount >>

(***************************************************************************)
(* GET /auth/me                                                            *)
(***************************************************************************)
SamplePayload ==
    signVibeAccessHS256([iss |-> VIBE_ISS, aud |-> VIBE_AUD, sub |-> "u1",
                         email |-> "a@b.com", roles |-> "viewer"],
                        VIBE_ACCESS_SECRET, SessionTtl, T0).payload

\* Session tokens a client may present: made with any header algorithm,
\* with an HMAC under the worker's secret or another one, over the token's
\* own header and payload or over another payload; or no JWT at all.
PresentedTokens ==
    { [kind |-> "token", header |-> [alg |-> a, typ |-> "JWT"], payload |-> SamplePayload,
       sig |-> Hmac(k, [alg |-> a, typ |-> "JWT"], p)] :
         a \in { "HS256", "none", "RS256" },
         k \in { VIBE_ACCESS_SECRET, "secret-2" },
         p \in { SamplePayload, [SamplePayload EXCEPT !.sub = "u2"] } }
    \cup { [kind |-> "malformed", header |-> [alg |-> "HS256", typ |-> "JWT"],
            payload |-> SamplePayload,
            sig |-> Hmac(VIBE_ACCESS_SECRET, [alg |-> "HS256", typ |-> "JWT"], SamplePayload)] }

\* Those of them that differ in the header algorithm only: the HMAC is the
\* worker's over the token's own header and payload.
AlgorithmTokens ==
    { c \in PresentedTokens :
        /\ c.kind = "token" /\ c.payload = SamplePayload
        /\ c.sig = Hmac(VIBE_ACCESS_SECRET, c.header, c.payload) }

\* Mutant: a token that was presented at a logout is refused from then on.
MeResponse_RevokedAfterLogout(cookie, t) ==
    IF cookie = {} \/ cookie \cap trail.logout # {}
    THEN [cookie |-> cookie, at |-> t, status |-> 401, code |-> "NO_SESSION", body |-> {}]
    ELSE LET token == CHOOSE c \in cookie : TRUE
         IN  IF verifyVibeAccessHS256(token, VIBE_ACCESS_SECRET, t) # ""
             THEN [cookie |-> cookie, at |-> t, status |-> 401, code |-> "NO_SESSION",
                   body |-> {}]
             ELSE [cookie |-> cookie, at |-> t, status |-> 200, code |-> "",
                   body |-> { [user_id |-> token.payload.sub,
                               email |-> token.payload.email,
                               roles |-> token.payload.roles] }]

\* handleMe(request, env), the cookie header already parsed: `cookie` is
\* cookies[VIBE_COOKIE_NAME], {} when there is none
MeResponse(cookie, t) ==
    IF cookie = {}
    THEN [cookie |-> cookie, at |-> t, status |-> 401, code |-> "NO_SESSION", body |-> {}]
    ELSE LET token == CHOOSE c \in cookie : TRUE
         IN  IF verifyVibeAccessHS256(token, VIBE_ACCESS_SECRET, t) # ""
             THEN [cookie |-> cookie, at |-> t, status |-> 401, code |-> "NO_SESSION",
                   body |-> {}]
             ELSE [cookie |-> cookie, at |-> t, status |-> 200, code |-> "",
                   body |-> { [user_id |-> token.payload.sub,
                               email |-> token.payload.email,
                               roles |-> token.payload.roles] }]

HandleMe(cookie) ==
    /\ me' = MeResponse(cookie, now)
    /\ last' = IdleSlot
    /\ gw' = NoGw /\ inflight' = inflight
    /\ sess' = sess /\ trail' = trail
    /\ schema' = schema
    /\ UNCHANGED << now, ms, users, jwtSeen, jwksCache, jwksRemote, req,
                    jtiCalls, jtiTrue, gcRemoved, gcCutoff, okCount >>

(***************************************************************************)
(* The protected prefix: handleProtected                                   *)
(***************************************************************************)
PROTECTED_PREFIX == "/app/"
VIBE_ORIGIN == "https://upstream.example"

\* path.startsWith(protectedPrefix), over the paths of the model
StartsWithPrefix(path) == path \in { "/app/", "/app//", "/app/dashboard" }

\* url.pathname === env.PROTECTED_PREFIX || url.pathname === env.PROTECTED_PREFIX + '/'
IsInitialAppsRequest(path) == path = "/app/" \/ path = "/app//"

\* URLSearchParams serialisation (application/x-www-form-urlencoded) of the
\* values the model puts in a query string.
FormEncode(v) ==
    IF v = "/app/" THEN "%2Fapp%2F"
    ELSE IF v = "/app//" THEN "%2Fapp%2F%2F"
    ELSE IF v = "t+k/1=" THEN "t%2Bk%2F1%3D"
    ELSE v

\* Header names are case-insensitive: a Headers object keeps them in lower
\* case.
LowerName(n) ==
    IF n = "X-User-Id" THEN "x-user-id"
    ELSE IF n = "X-User-Email" THEN "x-user-email"
    ELSE IF n = "X-User-Roles" THEN "x-user-roles"
    ELSE IF n = "Content-Type" THEN "content-type"
    ELSE n

HeadersSet_KeepExisting(h, name, value) ==
    [n \in DOMAIN h \cup { LowerName(name) } |->
        IF n \in DOMAIN h THEN h[n] ELSE value]

\* Headers.prototype.set
HeadersSet(h, name, value) ==
    [n \in DOMAIN h \cup { LowerName(name) } |->
        IF n = LowerName(name) THEN value ELSE h[n]]

\* A session token as issued for user u2, and one signed a TTL before T0.
OtherToken ==
    signVibeAccessHS256([iss |-> VIBE_ISS, aud |-> VIBE_AUD, sub |-> "u2",
                         email |-> "c@d.com", roles |-> "admin,viewer"],
                        VIBE_ACCESS_SECRET, SessionTtl, T0)
EmptyCookie == [OtherToken EXCEPT !.kind = "empty"]

\* The cookies a client may send: none, an empty one, the tokens of
\* PresentedTokens and a second valid one.
GatewayCookies ==
    { {} } \cup { {t} : t \in PresentedTokens \cup { OtherToken, EmptyCookie } }

\* The headers a client may send besides Cookie and Origin.
ClientHeaders ==
    { [n \in { "accept" } |-> "text/html"],
      [n \in { "accept", "x-user-id" } |-> IF n = "accept" THEN "text/html" ELSE "admin"],
      [n \in { "x-user-id", "x-user-email", "x-user-roles" } |->
          IF n = "x-user-id" THEN "u1" ELSE IF n = "x-user-email" THEN "root@b.com" ELSE "admin"] }

\* The requests of the gateway scenarios: every origin, method, path and
\* cookie without query, body or identity headers; and the requests under
\* the protected prefix that present a valid session, with and without a
\* query, a body and identity headers of the client's own.
GatewayRequests ==
    [origin : { {}, {""}, {"https://flexifunnels.com"}, {"https://evil.example"} },
     method : { "GET", "POST", "OPTIONS" },
     path : { "/app/", "/app//", "/app/dashboard", "/other",
              "/auth/me", "/auth/logout", "/auth/health", "/migrate" },
     search : { "" },
     body : { "" },
     cookie : GatewayCookies,
     headers : { [n \in { "accept" } |-> "text/html"] }]
    \cup
    [origin : { {} },
     method : { "GET", "POST" },
     path : { "/app/", "/app/dashboard" },
     search : { "", "?a=1" },
     body : { "", "data" },
     cookie : { { t } : t \in AlgorithmTokens \cup { OtherToken } },
     headers : ClientHeaders]

\* What the upstream does with the handoff call: the fetch rejects, or it
\* answers not-OK, or OK with a body that is no JSON, JSON null, or an
\* object with or without success, data and data.accessToken.
HandoffOutcomes ==
    { [kind |-> "throws", ok |-> FALSE, json |-> "none", success |-> FALSE, data |-> {}],
      [kind |-> "response", ok |-> FALSE, json |-> "object", success |-> FALSE, data |-> {}],
      [kind |-> "response", ok |-> TRUE, json |-> "invalid", success |-> FALSE, data |-> {}],
      [kind |-> "response", ok |-> TRUE, json |-> "null", success |-> FALSE, data |-> {}] }
    \cup
    [kind : { "response" }, ok : { TRUE }, json : { "object" }, success : BOOLEAN,
     data : { {}, { [accessToken |-> {}] }, { [accessToken |-> {""}] },
              { [accessToken |-> {"tok1"}] }, { [accessToken |-> {"t+k/1="}] } }]

\* What the upstream does with a proxied request.
ProxyOutcomes ==
    { [kind |-> "throws", resp |-> {}] }
    \cup { [kind |-> "response", resp |-> { [status |-> st, body |-> "upstream page"] }] :
             st \in { 200, 401, 500 } }

\* A response of the worker outside the exchange: status, the code of a
\* JSON error, the form of the body ("error-json": {error, code, message?},
\* "json", "text", "empty", or "upstream" for a response passed through),
\* the headers besides Set-Cookie and Location, the JSON body, the cookie
\* set, the redirect target and the upstream response passed through.
GwEmpty ==
    [status |-> 0, code |-> "", form |-> "empty", headers |-> << >>, body |-> {},
     cookie |-> {}, location |-> {}, proxied |-> {}]

JsonHeaders == [n \in { "content-type" } |-> "application/json"]

\* errorResponse(code, error, status, message), as every handler but the
\* exchange calls it: without the origin argument
GwError(code, status) ==
    [GwEmpty EXCEPT !.status = status, !.code = code, !.form = "error-json",
                    !.headers = JsonHeaders]

\* The record of request q, routed to `route`, whose handler read the
\* clock at second t: nothing sent, nothing answered yet.
GwBase(q, t, route) ==
    [pc |-> "done", in |-> q, at |-> t, end |-> 0, session |-> {}, upstream |-> << >>,
     outcome |-> {}, resp |-> GwEmpty, route |-> route, env |-> {}, sql |-> << >>,
     exec |-> FALSE]

\* The handoff call of handleProtected: fetch(handoffUrl, { method: 'POST',
\* headers }) for the verified session payload.
HandoffCall(payload) ==
    [origin |-> VIBE_ORIGIN, kind |-> "handoff", method |-> "POST",
     path |-> "/api/auth/sso-handoff", search |-> "", body |-> "",
     cookie |-> {},
     headers |-> [n \in { "x-user-id", "x-user-email", "x-user-roles",
                          "content-type" } |->
                     IF n = "x-user-id" THEN payload.sub
                     ELSE IF n = "x-user-email" THEN payload.email
                     ELSE IF n = "x-user-roles" THEN payload.roles
                     ELSE "application/json"]]

\* handleProtected after `await fetch(handoffUrl, ...)`: the fetch rejected
\* (the catch clause answers), or it resolved with a response that is not
\* OK, or with one that is OK, whose body is read next.
HandoffFetched(g, ho) ==
    IF ho.kind = "throws"
    THEN [g EXCEPT !.pc = "done", !.outcome = { ho }, !.resp = GwError("NO_SESSION", 401)]
    ELSE IF ~ho.ok
    THEN [g EXCEPT !.pc = "done", !.outcome = { ho },
                   !.resp = GwError("SSO_HANDOFF_FAILED", 500)]
    ELSE [g EXCEPT !.pc = "json", !.outcome = { ho }]

\* handleProtected after `await handoffResponse.json()`: the body is no
\* JSON (json() rejects) or null (reading .success throws), and the catch
\* clause answers; or it lacks success, data or data.accessToken; or the
\* redirect to the upstream's sso-complete endpoint is issued.
HandoffParsed(g) ==
    LET ho == CHOOSE x \in g.outcome : TRUE
    IN  [g EXCEPT
           !.pc = "done",
           !.resp =
              IF ho.json \in { "invalid", "null" } THEN GwError("NO_SESSION", 401)
              ELSE IF ~ho.success \/ ho.data = {}
                      \/ \A d \in ho.data : ~TruthyStr(d.accessToken)
              THEN GwError("SSO_HANDOFF_FAILED", 500)
              ELSE LET d == CHOOSE x \in ho.data : TRUE
                       accessToken == CHOOSE a \in d.accessToken : TRUE
                   IN  [GwEmpty EXCEPT
                          !.status = 302,
                          !.location =
                             { [origin |-> VIBE_ORIGIN,
                                path |-> "/api/auth/sso-complete",
                                query |-> << << "token", FormEncode(accessToken) >>,
                                             << "redirect", FormEncode(g.in.path) >> >>] }]]

\* The proxying of handleProtected up to `await fetch(proxyRequest)`: the
\* headers, and the request to the upstream, which cannot be built for a
\* GET or HEAD that carries a body (new Request throws, the catch clause
\* answers).
ProxySend(g, payload) ==
    LET q == g.in
        h1 == HeadersSet(q.headers, "X-User-Id", payload.sub)
        h2 == HeadersSet(h1, "X-User-Email", payload.email)
        h3 == HeadersSet(h2, "X-User-Roles", payload.roles)
        sent == [origin |-> VIBE_ORIGIN, kind |-> "proxy", method |-> q.method,
                 path |-> q.path, search |-> q.search, body |-> q.body,
                 cookie |-> q.cookie, headers |-> h3]
    IN  IF q.method \in { "GET", "HEAD" } /\ q.body # ""
        THEN [g EXCEPT !.resp = GwError("NO_SESSION", 401)]
        ELSE [g EXCEPT !.pc = "proxy", !.upstream = << sent >>]

\* handleProtected after `await fetch(proxyRequest)`: the upstream's
\* response is returned, or the fetch rejected and the catch clause answers.
ProxyFetched(g, po) ==
    [g EXCEPT
       !.pc = "done", !.outcome = { po },
       !.resp = IF po.kind = "throws" THEN GwError("NO_SESSION", 401)
                ELSE LET u == CHOOSE x \in po.resp : TRUE
                     IN  [GwEmpty EXCEPT !.status = u.status, !.form = "upstream",
                                         !.proxied = { u }]]

\* Mutant: a verified session is honoured only while the user's row is
\* in the user table and not suspended.
handleProtected_ChecksUser(q, t) ==
    LET g == GwBase(q, t, "protected")
        refused == [g EXCEPT !.resp = GwError("NO_SESSION", 401)]
    IN  IF q.cookie = {} \/ (\E c \in q.cookie : c.kind = "empty")
        THEN refused
        ELSE LET token == CHOOSE c \in q.cookie : TRUE
                 user == getUserByEmail(users, token.payload.email)
                 s == [g EXCEPT !.session = { token.payload }]
             IN  IF \/ verifyVibeAccessHS256(token, VIBE_ACCESS_SECRET, t) # ""
                    \/ user = {}
                    \/ \E u \in user : u.status = "suspended"
                 THEN refused
                 ELSE IF IsInitialAppsRequest(q.path) /\ q.method = "GET"
                 THEN [s EXCEPT !.pc = "handoff",
                                !.upstream = << HandoffCall(token.payload) >>]
                 ELSE ProxySend(s, token.payload)

\* handleProtected(request, env) up to its first await of the upstream,
\* the Cookie header already parsed; verifyVibeAccessHS256 reads the clock
\* at second t.  The request is refused, or its handoff call or its proxied
\* request is on the way (pc "handoff", "proxy").
handleProtected(q, t) ==
    LET g == GwBase(q, t, "protected")
        refused == [g EXCEPT !.resp = GwError("NO_SESSION", 401)]
    IN  IF q.cookie = {} \/ (\E c \in q.cookie : c.kind = "empty")
        THEN refused
        ELSE LET token == CHOOSE c \in q.cookie : TRUE
                 s == [g EXCEPT !.session = { token.payload }]
             IN  IF verifyVibeAccessHS256(token, VIBE_ACCESS_SECRET, t) # ""
                 THEN refused
                 ELSE IF IsInitialAppsRequest(q.path) /\ q.method = "GET"
                 THEN [s EXCEPT !.pc = "handoff",
                                !.upstream = << HandoffCall(token.payload) >>]
                 ELSE ProxySend(s, token.payload)

\* handleLogout(request, env)
handleLogout ==
    [GwEmpty EXCEPT
       !.status = 200, !.form = "json",
       !.headers = [n \in { "content-type" } |-> "text/plain;charset=UTF-8"],
       !.body = { [success |-> TRUE, message |-> "Logged out"] },
       !.cookie = { clearCookie(VIBE_COOKIE_NAME,
                                [NoOptions EXCEPT !.domain = {VIBE_COOKIE_DOMAIN},
                                                  !.path = {"/"}]) }]

\* handleHealth()
handleHealth ==
    [GwEmpty EXCEPT !.status = 200, !.form = "json", !.headers = JsonHeaders,
                    !.body = { [ok |-> TRUE] }]

\* handleMe(request, env) as a response of fetch()
MeRouteResponse(cookie, t) ==
    LET m == MeResponse(cookie, t)
    IN  IF m.status = 200
        THEN [GwEmpty EXCEPT !.status = 200, !.form = "json", !.headers = JsonHeaders,
                             !.body = m.body]
        ELSE GwError(m.code, m.status)

\* The values env.ALLOW_MIGRATE may have: unset, 'true', and others.
MigrateFlags == { {}, {"true"}, {"false"}, {"TRUE"}, {"1"}, {""} }

\* handleMigrate(env) for request q up to `await env.VIBE_DB.batch()`:
\* refused unless env.ALLOW_MIGRATE (allow) is 'true', else the batch of
\* the migration statements is sent to the store (pc "batch").
handleMigrate(q, t, allow) ==
    LET g == [GwBase(q, t, "migrate") EXCEPT !.env = { [ALLOW_MIGRATE |-> allow] }]
    IN  IF allow # {"true"}
        THEN [g EXCEPT !.resp = GwError("FORBIDDEN", 403)]
        ELSE [g EXCEPT !.pc = "batch", !.sql = MIGRATION_STATEMENTS]

\* handleMigrate after the await: the batch resolved (ok), or it rejected
\* and the catch clause answers.
MigrateAnswer(g, ok) ==
    [g EXCEPT
       !.pc = "done",
       !.resp = IF ok
                THEN [GwEmpty EXCEPT !.status = 200, !.form = "json",
                                     !.headers = JsonHeaders,
                                     !.body = { [success |-> TRUE,
                                                 message |-> "Migrations applied"] }]
                ELSE GwError("MIGRATION_FAILED", 500)]

\* path !== '/migrate' && path !== '/auth/health', negated
SkipsCORS(path) == path = "/migrate" \/ path = "/auth/health"

\* fetch(): the handler that answers request q ("cors": handleCORS's own
\* response, "not-found": the last line of fetch).
Route(q) ==
    IF ~SkipsCORS(q.path) /\ handleCORS(q) # {} THEN "cors"
    ELSE IF q.path = "/auth/vibe-access" /\ q.method = "POST" THEN "vibe-access"
    ELSE IF q.path = "/auth/me" /\ q.method = "GET" THEN "me"
    ELSE IF q.path = "/auth/logout" /\ q.method = "POST" THEN "logout"
    ELSE IF q.path = "/auth/health" /\ q.method = "GET" THEN "health"
    ELSE IF q.path = "/migrate" /\ q.method = "GET" THEN "migrate"
    ELSE IF StartsWithPrefix(q.path) THEN "protected"
    ELSE "not-found"

\* new Response('Not Found', { status: 404 })
NotFound ==
    [GwEmpty EXCEPT !.status = 404, !.form = "text",
                    !.headers = [n \in { "content-type" } |-> "text/plain;charset=UTF-8"],
                    !.body = { [text |-> "Not Found"] }]

\* Mutant: a path that matches no route is passed on to the upstream.
GatewayDispatch_ProxiesUnknown(q, t) ==
    LET route == Route(q)
        g == GwBase(q, t, route)
    IN  IF route = "cors"
        THEN LET c == CHOOSE x \in handleCORS(q) : TRUE
             IN  [g EXCEPT !.resp = IF c.status = 204
                                    THEN [GwEmpty EXCEPT !.status = 204,
                                                         !.headers = c.headers]
                                    ELSE GwError(c.code, c.status)]
        ELSE IF route = "me" THEN [g EXCEPT !.resp = MeRouteResponse(q.cookie, t)]
        ELSE IF route = "logout" THEN [g EXCEPT !.resp = handleLogout]
        ELSE IF route = "health" THEN [g EXCEPT !.resp = handleHealth]
        ELSE IF route = "protected" THEN handleProtected(q, t)
        ELSE ProxySend(g, [sub |-> "", email |-> "", roles |-> ""])

\* The worker's fetch() for a request to any route but the exchange and
\* /migrate, up to the handler's first await of the upstream.
GatewayDispatch(q, t) ==
    LET route == Route(q)
        g == GwBase(q, t, route)
    IN  IF route = "cors"
        THEN LET c == CHOOSE x \in handleCORS(q) : TRUE
             IN  [g EXCEPT !.resp = IF c.status = 204
                                    THEN [GwEmpty EXCEPT !.status = 204,
                                                         !.headers = c.headers]
                                    ELSE GwError(c.code, c.status)]
        ELSE IF route = "me" THEN [g EXCEPT !.resp = MeRouteResponse(q.cookie, t)]
        ELSE IF route = "logout" THEN [g EXCEPT !.resp = handleLogout]
        ELSE IF route = "health" THEN [g EXCEPT !.resp = handleHealth]
        ELSE IF route = "protected" THEN handleProtected(q, t)
        ELSE [g EXCEPT !.resp = NotFound]

\* The request in slot r has reached g: it waits at its next await, or its
\* response is sent, at the second the clock shows, and the slot is free
\* again.
GwSettle(r, g) ==
    /\ inflight' = [inflight EXCEPT ![r] = IF g.pc = "done" THEN NoGw ELSE g]
    /\ gw' = IF g.pc = "done" THEN [g EXCEPT !.end = now] ELSE NoGw
    /\ last' = IdleSlot /\ me' = NoMe /\ sess' = sess /\ trail' = trail

\* A request to any route but the exchange and /migrate arrives in slot r
\* and runs to its first await of the upstream, or to its answer.
GatewayRequest(r, q) ==
    /\ inflight[r].pc = "idle"
    /\ Route(q) \notin { "vibe-access", "migrate" }
    /\ GwSettle(r, GatewayDispatch(q, now))
    /\ UNCHANGED << now, ms, schema, users, jwtSeen, jwksCache, jwksRemote, req,
                    jtiCalls, jtiTrue, gcRemoved, gcCutoff, okCount >>

\* The handoff fetch of the request in slot r ends: the upstream answered
\* with ho, or the fetch rejected.
HandoffReturn(r, ho) ==
    /\ inflight[r].pc = "handoff"
    /\ GwSettle(r, HandoffFetched(inflight[r], ho))
    /\ UNCHANGED << now, ms, schema, users, jwtSeen, jwksCache, jwksRemote, req,
                    jtiCalls, jtiTrue, gcRemoved, gcCutoff, okCount >>

\* The body of the handoff response has been read.
HandoffJson(r) ==
    /\ inflight[r].pc = "json"
    /\ GwSettle(r, HandoffParsed(inflight[r]))
    /\ UNCHANGED << now, ms, schema, users, jwtSeen, jwksCache, jwksRemote, req,
                    jtiCalls, jtiTrue, gcRemoved, gcCutoff, okCount >>

\* The proxy fetch of the request in slot r ends: the upstream answered
\* with po, or the fetch rejected.
ProxyReturn(r, po) ==
    /\ inflight[r].pc = "proxy"
    /\ GwSettle(r, ProxyFetched(inflight[r], po))
    /\ UNCHANGED << now, ms, schema, users, jwtSeen, jwksCache, jwksRemote, req,
                    jtiCalls, jtiTrue, gcRemoved, gcCutoff, okCount >>

\* A request routed to handleMigrate arrives in slot r, with
\* env.ALLOW_MIGRATE = allow, and runs to the await of the batch, or to
\* its answer.
MigrateRequest(r, q, allow) ==
    /\ inflight[r].pc = "idle"
    /\ Route(q) = "migrate"
    /\ GwSettle(r, handleMigrate(q, now, allow))
    /\ UNCHANGED << now, ms, schema, users, jwtSeen, jwksCache, jwksRemote, req,
                    jtiCalls, jtiTrue, gcRemoved, gcCutoff, okCount >>

\* The store executes the batch of the request in slot r: the statements
\* in order, in one transaction.
MigrateBatch(r) ==
    /\ inflight[r].pc = "batch"
    /\ ~inflight[r].exec
    /\ LET db == ExecBatch([schema |-> schema, users |-> users, jwtSeen |-> jwtSeen],
                           inflight[r].sql)
       IN  /\ schema' = db.schema
           /\ users' = db.users
           /\ jwtSeen' = db.jwtSeen
    /\ GwSettle(r, [inflight[r] EXCEPT !.exec = TRUE])
    /\ UNCHANGED << now, ms, jwksCache, jwksRemote, req,
                    jtiCalls, jtiTrue, gcRemoved, gcCutoff, okCount >>

\* The await of the batch ends: it resolves once the store has executed
\* the batch (ok), or it rejects, before the store executed anything (a
\* batch that fails is rolled back) or after (the result did not arrive).
MigrateReturn(r, ok) ==
    /\ inflight[r].pc = "batch"
    /\ ok => inflight[r].exec
    /\ GwSettle(r, MigrateAnswer(inflight[r], ok))
    /\ UNCHANGED << now, ms, schema, users, jwtSeen, jwksCache, jwksRemote, req,
                    jtiCalls, jtiTrue, gcRemoved, gcCutoff, okCount >>

(***************************************************************************)
(* The session token by itself: signVibeAccessHS256 now, and               *)
(* verifyVibeAccessHS256 of the signed token at any later second           *)
(***************************************************************************)
Secrets == { VIBE_ACCESS_SECRET, "secret-2" }
Ttls == { 0, 1, SessionTtl }
SessionInstants == { T0, T0 + 1, T0 + 2, T0 + SessionTtl, T0 + SessionTtl + 1 }
SessionSubjects ==
    [iss : { VIBE_ISS }, aud : { VIBE_AUD }, sub : { "u1", "u2" },
     email : { "a@b.com", "c@d.com" }, roles : { "viewer", "admin,viewer" }]

SignSession(payload, secret, ttlSeconds) ==
    /\ sess' = [made |-> { [token |-> signVibeAccessHS256(payload, secret, ttlSeconds, now),
                            payload |-> payload, secret |-> secret,
                            ttl |-> ttlSeconds, t0 |-> now] },
                checked |-> {}]
    /\ last' = IdleSlot /\ me' = NoMe /\ gw' = NoGw /\ inflight' = inflight
    /\ schema' = schema /\ trail' = trail
    /\ UNCHANGED << now, ms, users, jwtSeen, jwksCache, jwksRemote, req,
                    jtiCalls, jtiTrue, gcRemoved, gcCutoff, okCount >>

VerifySession(secret) ==
    /\ sess.made # {}
    /\ LET m == CHOOSE x \in sess.made : TRUE
           err == verifyVibeAccessHS256(m.token, secret, now)
       IN  sess' = [sess EXCEPT !.checked =
                      { [secret |-> secret, at |-> now, error |-> err,
                         payload |-> IF err = "" THEN { m.token.payload } ELSE {}] }]
    /\ last' = IdleSlot /\ me' = NoMe /\ gw' = NoGw /\ inflight' = inflight
    /\ schema' = schema /\ trail' = trail
    /\ UNCHANGED << now, ms, users, jwtSeen, jwksCache, jwksRemote, req,
                    jtiCalls, jtiTrue, gcRemoved, gcCutoff, okCount >>

(***************************************************************************)
(* Specifications                                                          *)
(***************************************************************************)
Statuses == { "active", "suspended", "pending" }

\* The rows an administrator may write for a@b.com.
UserChoices ==
    [user_id : { "u1" }, status : Statuses, roles : { "viewer" }]
    \cup { [user_id |-> "usr_9", status |-> "active", roles |-> "admin,viewer"] }

\* The outputs of a step are observed and cleared before the next one.
Quiet == last = IdleSlot /\ me = NoMe /\ gw = NoGw

Deliver ==
    /\ ~Quiet
    /\ Silent
    /\ UNCHANGED << now, ms, users, jwtSeen, jwksCache, jwksRemote, req,
                    jtiCalls, jtiTrue, gcRemoved, gcCutoff, okCount >>

\* Replay scenarios: NumReq concurrent exchanges of a valid assertion with
\* one nonce under a fixed key set and a fixed user table, while the clock
\* passes the retention window and cleanupOldJtis runs.
Next ==
    \/ Deliver
    \/ Quiet /\ \E r \in Slots, q \in ReplayInputs : Receive(r, q)
    \/ Quiet /\ \E r \in Slots : JwksAnswer(r, "keys")
    \/ Quiet /\ \E r \in Slots, ok \in BOOLEAN : FetchReturn(r, ok)
    \/ Quiet /\ \E r \in Slots : InsertJti(r)
    \/ Quiet /\ \E r \in Slots : MarkJtiSeen(r)
    \/ Quiet /\ \E r \in Slots : UserSelect(r)
    \/ Quiet /\ \E r \in Slots : UserLookup(r)
    \/ Quiet /\ \E t \in ReplayInstants : Tick(t)
    \/ Quiet /\ CleanupOldJtis(DefaultRetention)
    \/ Quiet /\ CleanupDelete

Spec == Init /\ [][Next]_vars

\* Validation scenarios: one exchange at a time, over every input, and
\* GET /auth/me over every presented cookie.
NextValidation ==
    \/ Deliver
    \/ Quiet /\ \E q \in ValidationInputs : Receive(1, q)
    \/ Quiet /\ \E a \in JwksAnswers : JwksAnswer(1, a)
    \/ Quiet /\ \E ok \in BOOLEAN : FetchReturn(1, ok)
    \/ Quiet /\ InsertJti(1)
    \/ Quiet /\ MarkJtiSeen(1)
    \/ Quiet /\ UserSelect(1)
    \/ Quiet /\ UserLookup(1)
    \/ Quiet /\ \E t \in ValidationInstants : Tick(t)
    \/ Quiet /\ \E u \in UserChoices : UpsertUser("a@b.com", u.user_id, u.status, u.roles)
    \/ Quiet /\ \E v \in JwksVersions : RotateJwks(v)
    \/ Quiet /\ \E t \in AlgorithmTokens : HandleMe({t})

SpecValidation == Init /\ [][NextValidation]_vars

\* Claim scenarios: one exchange at a time over every combination of
\* claims.
NextClaims ==
    \/ Deliver
    \/ Quiet /\ \E q \in ClaimInputs : Receive(1, q)
    \/ Quiet /\ \E a \in JwksAnswers : JwksAnswer(1, a)
    \/ Quiet /\ \E ok \in BOOLEAN : FetchReturn(1, ok)
    \/ Quiet /\ \E t \in ClaimInstants : Tick(t)

SpecClaims == InitJwks /\ [][NextClaims]_vars

\* Key scenarios: NumReq concurrent exchanges while the authority rotates
\* its keys and cache entries expire.
NextJwks ==
    \/ Deliver
    \/ Quiet /\ \E r \in Slots, q \in RaceInputs : Receive(r, q)
    \/ Quiet /\ \E r \in Slots : JwksAnswer(r, "keys")
    \/ Quiet /\ \E r \in Slots, ok \in BOOLEAN : FetchReturn(r, ok)
    \/ Quiet /\ \E t \in CacheInstants : Tick(t)
    \/ Quiet /\ \E v \in KeySets : RotateJwks(v)

SpecJwks == InitJwks /\ [][NextJwks]_vars

\* Cache scenarios: one exchange at a time while the clock moves by
\* milliseconds and by minutes and the authority rotates its keys.
NextCache ==
    \/ Deliver
    \/ Quiet /\ \E q \in KeyInputs : Receive(1, q)
    \/ Quiet /\ \E a \in JwksAnswers : JwksAnswer(1, a)
    \/ Quiet /\ \E ok \in BOOLEAN : FetchReturn(1, ok)
    \/ Quiet /\ \E t \in CacheInstants : Tick(t)
    \/ Quiet /\ \E f \in SubSeconds : TickMs(f)
    \/ Quiet /\ \E v \in KeySets : RotateJwks(v)

SpecCache == InitJwks /\ [][NextCache]_vars

\* The gateway: requests under the protected prefix and elsewhere, one
\* waiting for the upstream or the store at a time, with every cookie,
\* against an upstream that answers or fails in every way, while the clock
\* moves on, the user table changes and GET /auth/me is asked.
GatewayInstants == { T0, T0 + SessionTtl, T0 + SessionTtl + 1 }

NextGateway ==
    \/ Deliver
    \/ Quiet /\ \E q \in GatewayRequests : GatewayRequest(1, q)
    \/ Quiet /\ \E ho \in HandoffOutcomes : HandoffReturn(1, ho)
    \/ Quiet /\ HandoffJson(1)
    \/ Quiet /\ \E po \in ProxyOutcomes : ProxyReturn(1, po)
    \/ Quiet /\ \E q \in GatewayRequests, allow \in MigrateFlags : MigrateRequest(1, q, allow)
    \/ Quiet /\ MigrateBatch(1)
    \/ Quiet /\ \E ok \in BOOLEAN : MigrateReturn(1, ok)
    \/ Quiet /\ \E c \in GatewayCookies : HandleMe(c)
    \/ Quiet /\ \E t \in GatewayInstants : Tick(t)
    \/ Quiet /\ UpsertUser("a@b.com", "u1", "suspended", "viewer")

SpecGateway == InitGateway /\ [][NextGateway]_vars

\* The answer just given is delivered and remembered: the cookie presented
\* at a logout, and the cookie a handoff redirect was issued for.
Remember ==
    /\ ~Quiet
    /\ trail' = [logout |-> trail.logout \cup
                               (IF gw.pc = "done" /\ gw.route = "logout"
                                THEN gw.in.cookie ELSE {}),
                 handoff |-> trail.handoff \cup
                               (IF gw.pc = "done" /\ gw.route = "protected"
                                   /\ gw.resp.status = 302
                                THEN gw.in.cookie ELSE {})]
    /\ last' = IdleSlot /\ me' = NoMe /\ gw' = NoGw /\ inflight' = inflight
    /\ sess' = sess /\ schema' = schema
    /\ UNCHANGED << now, ms, users, jwtSeen, jwksCache, jwksRemote, req,
                    jtiCalls, jtiTrue, gcRemoved, gcCutoff, okCount >>

\* The session token issued to u1 at T0, as the client holds it.
IssuedToken ==
    signVibeAccessHS256([iss |-> VIBE_ISS, aud |-> VIBE_AUD, sub |-> "u1",
                         email |-> "a@b.com", roles |-> "viewer"],
                        VIBE_ACCESS_SECRET, SessionTtl, T0)

\* The same token with a signature under another secret.
ForgedToken ==
    [IssuedToken EXCEPT !.sig = Hmac("secret-2", IssuedToken.header, IssuedToken.payload)]

LifecycleCookies == { {}, { IssuedToken }, { ForgedToken } }

LifecycleRequests ==
    [origin : { {} },
     method : { "GET", "POST" },
     path : { "/app/", "/app/dashboard", "/auth/me", "/auth/logout" },
     search : { "" },
     body : { "" },
     cookie : LifecycleCookies,
     headers : { [n \in { "accept" } |-> "text/html"] }]

\* The life of a session: concurrent requests of one client over the
\* lifetime of its token, each answer remembered.  The upstream cannot be
\* reached, or it answers the handoff call with an access token and a
\* proxied request with a page.
NextLifecycle ==
    \/ Remember
    \/ Quiet /\ \E r \in Slots, q \in LifecycleRequests : GatewayRequest(r, q)
    \/ Quiet /\ \E r \in Slots :
          \E ho \in { h \in HandoffOutcomes :
                         \/ h.kind = "throws"
                         \/ /\ h.ok
                            /\ h.success
                            /\ h.data = { [accessToken |-> {"tok1"}] } } :
              HandoffReturn(r, ho)
    \/ Quiet /\ \E r \in Slots : HandoffJson(r)
    \/ Quiet /\ \E r \in Slots :
          \E po \in { p \in ProxyOutcomes : \A u \in p.resp : u.status = 200 } :
              ProxyReturn(r, po)
    \/ Quiet /\ \E c \in LifecycleCookies : HandleMe(c)
    \/ Quiet /\ \E t \in GatewayInstants : Tick(t)

SpecLifecycle == Init /\ [][NextLifecycle]_vars

\* The store failing: exchanges of valid assertions against a store that
\* may lack its tables and may reject any statement.
NextStore ==
    \/ Deliver
    \/ Quiet /\ \E r \in Slots, q \in StoreInputs : Receive(r, q)
    \/ Quiet /\ \E r \in Slots : JwksAnswer(r, "keys")
    \/ Quiet /\ \E r \in Slots, ok \in BOOLEAN : FetchReturn(r, ok)
    \/ Quiet /\ \E r \in Slots : InsertJti(r)
    \/ Quiet /\ \E r \in Slots : MarkJtiSeen(r)
    \/ Quiet /\ \E r \in Slots, e \in StoreErrors : MarkJtiSeenThrows(r, e)
    \/ Quiet /\ \E r \in Slots : UserSelect(r)
    \/ Quiet /\ \E r \in Slots : UserLookup(r)
    \/ Quiet /\ \E r \in Slots, e \in StoreErrors : UserLookupThrows(r, e)

SpecStore == InitGateway /\ [][NextStore]_vars

\* The session token: sign once or again, let time pass, verify.
NextSession ==
    \/ \E p \in SessionSubjects, k \in Secrets, ttl \in Ttls : SignSession(p, k, ttl)
    \/ \E k \in Secrets : VerifySession(k)
    \/ \E t \in SessionInstants : Tick(t)

SpecSession == Init /\ [][NextSession]_vars

(***************************************************************************)
(* Properties of the replay guard (checked under Spec)                     *)
(***************************************************************************)
\* Every request the model holds: those in flight and the one just answered.
Requests == { req[r] : r \in Slots } \cup { last }

\* The calls of markJtiSeen(n) whose INSERT has inserted the row and whose
\* result, true, has yet to reach them.
AboutToReturnTrue(n) ==
    { r \in Slots : /\ req[r].pc = "jti" /\ TheJti(req[r]) = n
                    /\ \E i \in req[r].ins : i.changes > 0 }

\* C1: replay-guard atomicity.  For every nonce, as long as cleanupOldJtis
\* has not deleted it, at most one markJtiSeen call returns true, and as
\* soon as any call has returned, exactly one call has returned true or is
\* about to (every other call returns false), whatever the interleaving of
\* the callers, of the store's INSERTs and of the delivery of their results.
C1_ReplayGuardAtomic ==
    \A n \in Nonces :
        n \notin gcRemoved =>
            /\ jtiTrue[n] + Cardinality(AboutToReturnTrue(n)) <= 1
            /\ (jtiCalls[n] >= 1 =>
                   jtiTrue[n] + Cardinality(AboutToReturnTrue(n)) = 1)

\* Two requests waited at the guard with the same nonce; the one that was
\* served first got true and is still in flight, the other has just been
\* answered 409.
C1_Witness ==
    /\ "n1" \notin gcRemoved
    /\ jtiCalls["n1"] = 2
    /\ jtiTrue["n1"] = 1
    /\ \E r \in Slots : req[r].pc = "user" /\ req[r].raced /\ req[r].isNew = {TRUE}
    /\ last.pc = "done" /\ last.isNew = {FALSE} /\ last.resp.code = "REPLAYED_JTI"

\* The store executed the INSERT of one request, then that of another with
\* the same nonce; the result of the second was delivered first: it has
\* been answered 409 while the markJtiSeen of the first has not returned.
RefusedBeforeWinnerReturned ==
    /\ last.pc = "done" /\ last.resp.code = "REPLAYED_JTI"
    /\ jtiCalls["n1"] = 1 /\ jtiTrue["n1"] = 0
    /\ AboutToReturnTrue("n1") # {}

\* C2, as claimed: among the exchanges carrying one nonce, no second one is
\* answered 204.  (okCount counts the 204 answers per nonce.)
C2_AtMostOne204PerNonce == \A n \in Nonces : okCount[n] <= 1

\* C3, as claimed: a request that reaches the replay guard with a nonce an
\* earlier request had recorded is answered 409 REPLAYED_JTI, whatever has
\* happened to the user record since.
C3_RecordedNonceYields409 ==
    \A s \in Requests :
        s.seenBefore = {TRUE} =>
            s.pc = "done" /\ s.resp.status = 409 /\ s.resp.code = "REPLAYED_JTI"

\* C4, as claimed: once a nonce has been recorded, no later exchange with
\* that nonce succeeds, cleanupOldJtis included.
C4_ReplayProtectionPermanent ==
    ~(last.pc = "done" /\ last.seenBefore = {TRUE} /\ last.resp.status = 204)

\* What does hold of the code: as long as cleanupOldJtis has deleted
\* nothing, a nonce yields at most one 204 and a recorded nonce yields 409.
ReplayGuardBeforeCleanup ==
    gcRemoved = {} =>
        /\ \A n \in Nonces : okCount[n] <= 1
        /\ \A s \in Requests :
              s.seenBefore = {TRUE} => s.pc = "done" /\ s.resp.code = "REPLAYED_JTI"

\* A request recorded its nonce and stayed in flight for longer than the
\* retention window; the cleanup deleted the nonce, a second request with
\* it passed the guard, and both have been answered 204.
AnsweredAcrossCleanup ==
    /\ last.pc = "done" /\ last.resp.status = 204
    /\ last.t0 = T0 /\ now > T0 + DefaultRetention
    /\ "n1" \in gcRemoved /\ okCount["n1"] = 2

\* C20 (checked under SpecStore, whose requests include the assertion
\* without a nonce): an assertion without a nonce skips the replay guard: its request
\* never waits at the guard and no markJtiSeen result is recorded for it;
\* once at the user lookup with a user that is not suspended it is answered
\* 204 with a cookie, however many times the assertion has been exchanged
\* before; and no step of such a request changes the replay store.
Nonceless(s) == s.pc # "idle" /\ ~TruthyStr(TheJwt(s).jti)

C20_SkipsGuard ==
    \A s \in Requests :
        Nonceless(s) =>
            /\ s.pc # "jti" /\ s.isNew = {} /\ s.seenBefore = {}
            /\ (s.pc = "done" /\ s.looked /\ \E u \in s.user : u.status # "suspended")
                  => s.resp.status = 204 /\ s.resp.cookie # {}

C20_StoreUnchanged ==
    (\/ Nonceless(last')
     \/ \E r \in Slots : req'[r] # req[r] /\ Nonceless(req'[r]))
        => jwtSeen' = jwtSeen

C20_NoNonceNoGuard == []C20_SkipsGuard /\ [][C20_StoreUnchanged]_vars

\* The assertion without a nonce has been exchanged for the second time
\* at least, again with 204.
C20_Witness ==
    /\ last.pc = "done" /\ Nonceless(last)
    /\ last.resp.status = 204
    /\ okCount[NoNonce] = 2

(***************************************************************************)
(* Properties of the exchange (checked under SpecValidation)               *)
(***************************************************************************)
Answered == last.pc = "done"
Tok(s) == TheJwt(s)

\* The claims as the design validates them: issuer and audience as
\* configured, expiry (if present) in the future, not-before (if present)
\* not in the future, an e-mail present and non-empty.
ClaimsValidAsSpecified(tok, t) ==
    /\ tok.iss = FLEXI_ISS
    /\ tok.aud = FLEXI_AUD
    /\ \A e \in tok.exp : e > t
    /\ \A b \in tok.nbf : b <= t
    /\ TruthyStr(tok.email)

\* The same with the expiry test of the code (jose.ts, line 123).
ClaimsValidAsCoded(tok, t) ==
    /\ tok.iss = FLEXI_ISS
    /\ tok.aud = FLEXI_AUD
    /\ ~ExpRejected(tok, t)
    /\ ~NbfRejected(tok, t)
    /\ TruthyStr(tok.email)

IssuanceConditions(s, claimsValid) ==
    /\ s.in.method = "POST"
    /\ s.resp.status = 204
    /\ s.resp.cookie # {}
    /\ \E q \in s.in.jwt :
          /\ q.kind = "token"
          /\ q.alg = "RS256"
          /\ \E ks \in s.keys : \E i \in 1..Len(ks) :
                ks[i] \in s.key /\ ks[i] \in AuthorityKeys /\ q.sig = ks[i].n
          /\ claimsValid
          /\ \E e \in q.email, b \in s.in.email : ToLowerCase(e) = ToLowerCase(b)
          /\ TruthyStr(q.jti) => s.isNew = {TRUE}
    /\ s.user # {}
    /\ \A u \in s.user : u.status # "suspended"

\* C5, as claimed: the exchange answers 204 or sets a cookie only if the
\* algorithm is RS256, the signature verified against a key of the key
\* set, the issuer/audience/expiry/not-before/email claims are valid, the
\* body e-mail equals the assertion's ignoring case, the nonce (if any) was
\* first seen, and the user exists and is not suspended.
C5_IssuanceSafety ==
    (Answered /\ (last.resp.cookie # {} \/ (last.in.method = "POST" /\ last.resp.status = 204)))
        => IssuanceConditions(last, ClaimsValidAsSpecified(Tok(last), last.t0))

\* What does hold of the code: the same with the expiry test as coded,
\* which lets exp = 0 and exp = now through.
IssuanceSafetyAsCoded ==
    (Answered /\ (last.resp.cookie # {} \/ (last.in.method = "POST" /\ last.resp.status = 204)))
        => IssuanceConditions(last, ClaimsValidAsCoded(Tok(last), last.t0))

\* C6, as claimed: an exchange whose assertion has its exp in the past
\* when the claims are checked is answered 401 JWT_INVALID without a
\* cookie, whatever its signature.
C6_PastExpRejected ==
    (Answered /\ last.t0 > 0 /\ \E e \in Tok(last).exp : e < last.t0)
        => /\ last.resp.status = 401
           /\ last.resp.code = "JWT_INVALID"
           /\ last.resp.cookie = {}

\* C7: an assertion whose header names a key-id that no key of the key
\* set getFlexiJWKS returned (cached or fetched) carries is answered 401
\* JWT_INVALID at once, and no key was selected for it: there is no
\* fallback to the first or any other key.
KidUnknown(s) ==
    /\ s.keys # {}
    /\ TruthyStr(Tok(s).kid)
    /\ \A ks \in s.keys : \A i \in 1..Len(ks) : ks[i].kid # Tok(s).kid

C7_UnknownKidRejected ==
    \A s \in Requests :
        KidUnknown(s) =>
            /\ s.pc = "done"
            /\ s.resp = errorResponse("JWT_INVALID", 401)
            /\ s.key = {}

\* The key-id k9 is unknown and the signature is one the first key of the
\* set would verify; the request is answered 401.
C7_Witness ==
    /\ Answered /\ KidUnknown(last)
    /\ \E ks \in last.keys : Len(ks) > 0 /\ RsaVerify(ks[1], Tok(last))
    /\ last.resp.status = 401

\* C8: an assertion whose header algorithm is not RS256 is answered 401
\* JWT_INVALID whatever its payload and signature, and GET /auth/me
\* answers 401 to a session token whose header algorithm is not HS256,
\* also when the token's HMAC under the worker's secret matches.
C8_AlgorithmFixed ==
    /\ \A s \in Requests :
          (s.t0 > 0 /\ Tok(s).kind = "token" /\ Tok(s).alg # "RS256")
              => s.pc = "done" /\ s.resp = errorResponse("JWT_INVALID", 401)
    /\ \A c \in me.cookie :
          (c.kind = "token" /\ c.header.alg # "HS256")
              => me.status = 401 /\ me.code = "NO_SESSION" /\ me.body = {}

\* A session token with algorithm "none" and a matching, unexpired HMAC
\* has been presented and refused.
C8_Witness ==
    /\ me.status = 401
    /\ \E c \in me.cookie :
          /\ c.kind = "token" /\ c.header.alg = "none"
          /\ c.sig = Hmac(VIBE_ACCESS_SECRET, c.header, c.payload)
          /\ c.payload.exp >= me.at

\* C9: the user lookup decides the outcome of a request that reached it:
\* the row is the one stored under the body's e-mail when the store
\* executed the SELECT; no row yields 403
\* USER_NOT_ALLOWED, a suspended row 403 USER_SUSPENDED, and a row with any
\* other status 204 with the session cookie.  No request gets one of the
\* two 403 codes without the lookup.
C9_LookupReadsRow ==
    \A r \in Slots :
        (~req[r].looked /\ req'[r].looked) =>
            LET e == BodyEmail(req[r])
            IN  req'[r].user = (IF e \in DOMAIN users THEN { users[e] } ELSE {})

C9_Outcome ==
    /\ (Answered /\ last.looked) =>
          /\ last.user = {} => last.resp = errorResponse("USER_NOT_ALLOWED", 403)
          /\ \A u \in last.user :
                IF u.status = "suspended"
                THEN last.resp = errorResponse("USER_SUSPENDED", 403)
                ELSE last.resp.status = 204 /\ last.resp.cookie # {}
    /\ (Answered /\ last.resp.code \in { "USER_NOT_ALLOWED", "USER_SUSPENDED" })
          => last.looked

C9_UserLookupDecides == []C9_Outcome /\ [][C9_LookupReadsRow]_vars

\* A user whose status is neither active nor suspended has been let in.
C9_Witness ==
    /\ Answered /\ last.looked
    /\ \E u \in last.user : u.status = "pending"
    /\ last.resp.status = 204

\* The row was read while the user was active; by the time the lookup
\* resolved the user had been suspended, and the request is answered 204.
SuspendedSinceSelect ==
    /\ Answered /\ last.looked /\ last.resp.status = 204
    /\ \E u \in last.user : u.status = "active"
    /\ BodyEmail(last) \in DOMAIN users
    /\ users[BodyEmail(last)].status = "suspended"

\* C10: a request whose Origin is present and not on the allow-list is
\* answered 403 FORBIDDEN by handleCORS alone: the body is not parsed, no
\* claim is checked, no key set is fetched, no cookie is set, and the step
\* that answers it leaves the replay store, the key cache and the user
\* table as they were and starts no fetch.
ForeignOrigin(q) == TruthyStr(q.origin) /\ ~(q.origin \subseteq ALLOWED_ORIGINS)

C10_RejectedAtOnce ==
    \A s \in Requests :
        (s.pc # "idle" /\ ForeignOrigin(s.in)) =>
            /\ s.pc = "done"
            /\ s.resp = errorResponse("FORBIDDEN", 403)
            /\ s.steps = << "cors" >>
            /\ s.t0 = 0 /\ s.keys = {}

C10_NoEffect ==
    (last'.pc = "done" /\ ForeignOrigin(last'.in)) =>
        /\ jwtSeen' = jwtSeen
        /\ jwksCache' = jwksCache
        /\ users' = users
        /\ \A r \in Slots : req'[r].pc = "fetch" => req[r].pc = "fetch"

C10_ForeignOriginRejected == []C10_RejectedAtOnce /\ [][C10_NoEffect]_vars

\* A request from a foreign origin that carried a valid assertion has been
\* answered 403.
C10_Witness ==
    /\ Answered /\ ForeignOrigin(last.in)
    /\ ClaimsError(Tok(last), now) = ""
    /\ Tok(last).sig = "KA"
    /\ last.resp.status = 403

\* The scenario of the design: the assertion {sub u1, email a@b.com, far
\* expiry, jti n1}, correctly signed, in a JSON body with the same e-mail,
\* and a@b.com active in the user table at the lookup.
ScenarioFirst ==
    /\ Answered /\ last.in = BaseReq(BaseTok)
    /\ last.isNew = {TRUE} /\ last.looked
    /\ \E u \in last.user : u.status = "active"

ScenarioResubmitted ==
    /\ Answered /\ last.in = BaseReq(BaseTok)
    /\ last.keys # {} /\ SignatureError(Tok(last), CHOOSE ks \in last.keys : TRUE) = ""
    /\ last.seenBefore = {TRUE}

\* C17, as claimed: the scenario's exchange returns 204 with a cookie whose
\* session payload has the assertion's subject; resubmitting the same
\* body returns 409.
C17_ScenarioAssertionSubject ==
    /\ ScenarioFirst =>
          /\ last.resp.status = 204
          /\ \E c \in last.resp.cookie : c.value.payload.sub = Tok(last).sub
    /\ ScenarioResubmitted => last.resp = errorResponse("REPLAYED_JTI", 409)

\* C17, amended: the scenario's exchange returns 204 with a cookie whose
\* session payload has the user_id of the row the lookup returned as its
\* subject (u1 when the row says u1); resubmitting the same body returns 409.
C17_ScenarioUserId ==
    /\ ScenarioFirst =>
          /\ last.resp.status = 204
          /\ \E c \in last.resp.cookie : \E u \in last.user :
                c.value.payload.sub = u.user_id
    /\ ScenarioResubmitted => last.resp = errorResponse("REPLAYED_JTI", 409)

\* The exchange has succeeded for a user whose row carries another id than
\* the assertion's subject.
C17_Witness ==
    /\ ScenarioFirst
    /\ \E u \in last.user : u.user_id = "usr_9"
    /\ \E c \in last.resp.cookie : c.value.payload.sub = "usr_9"

\* The same body has been answered 409.
ScenarioReplayed == ScenarioResubmitted /\ last.resp.status = 409

PassedCors(q) == ~TruthyStr(q.origin) \/ q.origin \subseteq ALLOWED_ORIGINS

\* C18, as claimed, for the requests handleCORS lets through: a POST to
\* the exchange is answered 204 with a cookie or with one of the listed
\* errors, and a content type other than application/json, a body that is
\* not JSON, or a body without jwt or email is answered 400 INVALID_BODY.
C18_ExchangeResponses ==
    (Answered /\ last.in.method = "POST" /\ PassedCors(last.in)) =>
        /\ \/ last.resp.status = 204 /\ last.resp.cookie # {}
           \/ /\ last.resp.cookie = {}
              /\ << last.resp.status, last.resp.code >> \in
                   { << 400, "INVALID_BODY" >>, << 401, "JWT_INVALID" >>,
                     << 401, "EMAIL_MISMATCH" >>, << 403, "USER_NOT_ALLOWED" >>,
                     << 403, "USER_SUSPENDED" >>, << 409, "REPLAYED_JTI" >>,
                     << 500, "INTERNAL_ERROR" >> }
        /\ (\/ last.in.ctype \notin { {"application/json"}, {"application/json; charset=utf-8"} }
            \/ ~last.in.json
            \/ last.in.jwt = {} \/ (\E j \in last.in.jwt : j.kind = "empty")
            \/ ~TruthyStr(last.in.email))
              => last.resp = errorResponse("INVALID_BODY", 400)

\* What does hold: the same with 400 INVALID_CONTENT_TYPE for a content
\* type that does not contain application/json.
ExchangeResponsesAsCoded ==
    (Answered /\ last.in.method = "POST" /\ PassedCors(last.in)) =>
        /\ \/ last.resp.status = 204 /\ last.resp.cookie # {}
           \/ /\ last.resp.cookie = {}
              /\ << last.resp.status, last.resp.code >> \in
                   { << 400, "INVALID_BODY" >>, << 400, "INVALID_CONTENT_TYPE" >>,
                     << 401, "JWT_INVALID" >>,
                     << 401, "EMAIL_MISMATCH" >>, << 403, "USER_NOT_ALLOWED" >>,
                     << 403, "USER_SUSPENDED" >>, << 409, "REPLAYED_JTI" >>,
                     << 500, "INTERNAL_ERROR" >> }
        /\ last.in.ctype \notin { {"application/json"}, {"application/json; charset=utf-8"} }
              => last.resp = errorResponse("INVALID_CONTENT_TYPE", 400)

(***************************************************************************)
(* Properties of the session token (checked under SpecSession)             *)
(***************************************************************************)
\* C11: a token signed by signVibeAccessHS256 with a TTL at t0 verifies
\* under the same secret at every second before t0 + TTL and gives back
\* the subject, e-mail and roles that were signed; it is rejected at every
\* second after t0 + TTL; under another secret it is always rejected.
C11_SessionRoundTrip ==
    \A m \in sess.made : \A c \in sess.checked :
        /\ (c.secret = m.secret /\ c.at < m.t0 + m.ttl) =>
              /\ c.error = ""
              /\ \E q \in c.payload :
                    /\ q.sub = m.payload.sub
                    /\ q.email = m.payload.email
                    /\ q.roles = m.payload.roles
        /\ (c.at > m.t0 + m.ttl) => c.error # "" /\ c.payload = {}
        /\ (c.secret # m.secret) => c.error # "" /\ c.payload = {}

\* A token has been refused one second after its expiry under the secret
\* that signed it.
C11_Witness ==
    \E m \in sess.made : \E c \in sess.checked :
        /\ m.ttl > 0 /\ c.secret = m.secret
        /\ c.at = m.t0 + m.ttl + 1
        /\ c.error = "Token expired"

\* A token has been accepted one second before its expiry, later than the
\* second it was signed at.
SessionAcceptedBeforeExpiry ==
    \E m \in sess.made : \E c \in sess.checked :
        /\ m.ttl > 0 /\ c.secret = m.secret
        /\ c.at = m.t0 + m.ttl - 1 /\ c.at > m.t0
        /\ c.error = ""

(***************************************************************************)
(* Properties of the gateway (checked under SpecGateway)                   *)
(***************************************************************************)
GwAnswered == gw.pc = "done"

\* The request reached handleProtected: it passed handleCORS and its path
\* is under the protected prefix.
ReachedProtected(g) ==
    /\ g.pc = "done"
    /\ g.in.path \in { "/app/", "/app//", "/app/dashboard" }
    /\ (g.in.origin = {} \/ (g.in.origin \subseteq ALLOWED_ORIGINS /\ g.in.method # "OPTIONS"))

\* The cookie is a three-part token with header algorithm HS256, an HMAC
\* under the worker's secret over its own header and payload, and an
\* expiry not before t.
CookieVerifies(cookie, t) ==
    \E c \in cookie :
        /\ c.kind = "token"
        /\ c.header.alg = "HS256"
        /\ c.sig = [key |-> VIBE_ACCESS_SECRET, header |-> c.header, payload |-> c.payload]
        /\ c.payload.exp >= t

Authorized(g) == ReachedProtected(g) /\ CookieVerifies(g.in.cookie, g.at)

IsHandoff(g) == g.in.method = "GET" /\ g.in.path \in { "/app/", "/app//" }

\* The requests that wait for the upstream.
WaitsForUpstream(r) == inflight[r].pc \in { "handoff", "json", "proxy" }

\* C12: a protected-prefix request without a session cookie, or with one
\* that fails verification at the second the handler checks it, is
\* answered 401 NO_SESSION in that very step; the worker sent nothing to
\* the upstream for it (no request waits for the upstream with a cookie
\* that did not verify), and the step left the tables, the schema and the
\* key cache as they were.
C12_Unauthorized ==
    /\ (ReachedProtected(gw) /\ ~CookieVerifies(gw.in.cookie, gw.at)) =>
          /\ gw.resp = GwError("NO_SESSION", 401)
          /\ gw.upstream = << >>
          /\ gw.session = {}
          /\ gw.end = gw.at
    /\ \A r \in Slots :
          WaitsForUpstream(r) => CookieVerifies(inflight[r].in.cookie, inflight[r].at)

C12_NoEffect ==
    (ReachedProtected(gw') /\ ~CookieVerifies(gw'.in.cookie, gw'.at)) =>
        /\ users' = users /\ jwtSeen' = jwtSeen /\ jwksCache' = jwksCache
        /\ schema' = schema /\ inflight' = inflight

C12_NoSessionNoSideEffect == []C12_Unauthorized /\ [][C12_NoEffect]_vars

\* A cookie signed under another secret, and otherwise in order, has been
\* answered 401.
C12_Witness ==
    /\ ReachedProtected(gw)
    /\ \E c \in gw.in.cookie :
          /\ c.kind = "token" /\ c.header.alg = "HS256"
          /\ c.sig = [key |-> "secret-2", header |-> c.header, payload |-> c.payload]
          /\ c.payload.exp >= gw.at
    /\ gw.resp.status = 401

\* C13, as claimed: an authorized protected-prefix request ends in a 302,
\* in the upstream's response, or in 500 SSO_HANDOFF_FAILED; 401 NO_SESSION
\* is answered only when the cookie is absent or fails verification.
C13_AuthorizedOutcomes ==
    /\ Authorized(gw) =>
          \/ gw.resp.status = 302 /\ gw.resp.location # {}
          \/ gw.resp.proxied # {}
          \/ gw.resp = GwError("SSO_HANDOFF_FAILED", 500)
    /\ (ReachedProtected(gw) /\ gw.resp.code = "NO_SESSION")
          => ~CookieVerifies(gw.in.cookie, gw.at)

\* The upstream handoff call succeeded: an OK response whose JSON body has
\* success, data and a non-empty data.accessToken.
HandoffSucceeded(ho) ==
    /\ ho.kind = "response" /\ ho.ok /\ ho.json = "object" /\ ho.success
    /\ \E d \in ho.data : TruthyStr(d.accessToken)

\* C14, as claimed: when the handoff call of an authorized GET of the
\* protected root does not succeed, the answer is 500 SSO_HANDOFF_FAILED
\* and nothing is proxied.
C14_HandoffFailure ==
    (Authorized(gw) /\ IsHandoff(gw) /\ \E ho \in gw.outcome : ~HandoffSucceeded(ho)) =>
        /\ gw.resp = GwError("SSO_HANDOFF_FAILED", 500)
        /\ \A i \in 1..Len(gw.upstream) : gw.upstream[i].kind # "proxy"

\* What does hold: a handoff that does not succeed is never proxied and
\* never redirected; it is answered 500 SSO_HANDOFF_FAILED or 401 NO_SESSION.
HandoffFailureAsCoded ==
    (Authorized(gw) /\ IsHandoff(gw) /\ \E ho \in gw.outcome : ~HandoffSucceeded(ho)) =>
        /\ gw.resp \in { GwError("SSO_HANDOFF_FAILED", 500), GwError("NO_SESSION", 401) }
        /\ \A i \in 1..Len(gw.upstream) : gw.upstream[i].kind # "proxy"

\* The receiver's decoding of a query-string value.
FormDecode(v) ==
    IF v = "%2Fapp%2F" THEN "/app/"
    ELSE IF v = "%2Fapp%2F%2F" THEN "/app//"
    ELSE IF v = "t%2Bk%2F1%3D" THEN "t+k/1="
    ELSE v

\* C15: an authorized request is a handoff exactly when it is a GET of the
\* protected prefix or of the prefix followed by "/".  The handoff call is
\* a POST to the upstream's /api/auth/sso-handoff with the session's user
\* id, e-mail and roles in X-User-Id, X-User-Email, X-User-Roles; when it
\* succeeds the answer is a 302 to the upstream's /api/auth/sso-complete
\* with token = the accessToken returned and redirect = the request's
\* path.  Every other authorized request is proxied.
C15_HandoffOrProxy ==
    Authorized(gw) =>
        /\ Len(gw.upstream) = 1
        /\ LET up == gw.upstream[1]
               p == CHOOSE x \in gw.session : TRUE
           IN  IF IsHandoff(gw)
               THEN /\ up.kind = "handoff" /\ up.method = "POST"
                    /\ up.origin = VIBE_ORIGIN /\ up.path = "/api/auth/sso-handoff"
                    /\ up.headers["x-user-id"] = p.sub
                    /\ up.headers["x-user-email"] = p.email
                    /\ up.headers["x-user-roles"] = p.roles
                    /\ \A ho \in gw.outcome : HandoffSucceeded(ho) =>
                          /\ gw.resp.status = 302
                          /\ \E loc \in gw.resp.location, d \in ho.data : \E a \in d.accessToken :
                                /\ loc.origin = VIBE_ORIGIN
                                /\ loc.path = "/api/auth/sso-complete"
                                /\ loc.query[1][1] = "token"
                                /\ FormDecode(loc.query[1][2]) = a
                                /\ loc.query[2][1] = "redirect"
                                /\ FormDecode(loc.query[2][2]) = gw.in.path
               ELSE up.kind = "proxy"

\* What the code does with an authorized request that is no handoff: it is
\* proxied unless it is a GET that carries a body, for which the proxy
\* request cannot be built; that one is answered 401 NO_SESSION and the
\* upstream is not called.
ProxiedUnlessGetWithBody ==
    (Authorized(gw) /\ ~IsHandoff(gw)) =>
        IF gw.in.method = "GET" /\ gw.in.body # ""
        THEN gw.upstream = << >> /\ gw.resp = GwError("NO_SESSION", 401)
        ELSE Len(gw.upstream) = 1 /\ gw.upstream[1].kind = "proxy"

\* An authorized GET below the protected root that carries a body has been
\* answered 401 NO_SESSION.
GetWithBodyRefused ==
    /\ Authorized(gw) /\ gw.in.method = "GET" /\ gw.in.path = "/app/dashboard"
    /\ gw.in.body = "data" /\ gw.resp = GwError("NO_SESSION", 401)

\* A GET of the prefix followed by "/" has been redirected with an access
\* token that needs escaping.
C15_Witness ==
    /\ Authorized(gw) /\ gw.in.method = "GET" /\ gw.in.path = "/app//"
    /\ gw.resp.status = 302
    /\ \E loc \in gw.resp.location : loc.query[1][2] = "t%2Bk%2F1%3D"

XUserNames == { "x-user-id", "x-user-email", "x-user-roles" }

\* The request g proxies has the method, path, query, body, cookie and
\* headers of the inbound one, except X-User-Id, X-User-Email and
\* X-User-Roles, which carry the sub, email and roles of the session
\* verified at second g.at, whatever the client sent.
ProxiedFaithfully(g) ==
    \A i \in 1..Len(g.upstream) :
        g.upstream[i].kind = "proxy" =>
            LET up == g.upstream[i]
            IN  /\ CookieVerifies(g.in.cookie, g.at)
                /\ up.origin = VIBE_ORIGIN
                /\ up.method = g.in.method /\ up.path = g.in.path
                /\ up.search = g.in.search /\ up.body = g.in.body
                /\ up.cookie = g.in.cookie
                /\ DOMAIN up.headers = DOMAIN g.in.headers \cup XUserNames
                /\ \A n \in DOMAIN g.in.headers \ XUserNames :
                      up.headers[n] = g.in.headers[n]
                /\ \A c \in g.in.cookie :
                      /\ up.headers["x-user-id"] = c.payload.sub
                      /\ up.headers["x-user-email"] = c.payload.email
                      /\ up.headers["x-user-roles"] = c.payload.roles

\* C16: the request the worker proxies, while it waits for the upstream
\* and when it is answered, has the method, path, query, body, cookie and
\* headers of the inbound one, except X-User-Id, X-User-Email and
\* X-User-Roles, which carry the sub, email and roles of the verified
\* session whatever the client sent; the response, whenever the upstream
\* gives it, is the upstream's.
C16_ProxyFidelity ==
    /\ \A r \in Slots : inflight[r].pc = "proxy" =>
          /\ Len(inflight[r].upstream) = 1
          /\ ProxiedFaithfully(inflight[r])
    /\ GwAnswered =>
          /\ ProxiedFaithfully(gw)
          /\ \A i \in 1..Len(gw.upstream) :
                gw.upstream[i].kind = "proxy" =>
                   \A po \in gw.outcome : \A u \in po.resp :
                       gw.resp.proxied = { u } /\ gw.resp.status = u.status

\* A request that claimed to be another user in its own X-User headers has
\* been proxied, and the upstream answered, a second after the expiry of
\* the session that was verified.
C16_Witness ==
    /\ GwAnswered
    /\ Len(gw.upstream) = 1 /\ gw.upstream[1].kind = "proxy"
    /\ gw.at = T0 + SessionTtl /\ gw.end = T0 + SessionTtl + 1
    /\ "x-user-email" \in DOMAIN gw.in.headers
    /\ gw.in.headers["x-user-email"] = "root@b.com"
    /\ gw.upstream[1].headers["x-user-email"] = "a@b.com"
    /\ gw.resp.proxied # {}

\* C19: GET /auth/me answers 200 with the sub, email and roles of the
\* presented session token as user_id, email and roles exactly when the
\* cookie is present and verifies; otherwise 401 NO_SESSION.
C19_MeResolvesSession ==
    me.status # 0 =>
        IF CookieVerifies(me.cookie, me.at)
        THEN /\ me.status = 200
             /\ \E c \in me.cookie :
                   me.body = { [user_id |-> c.payload.sub, email |-> c.payload.email,
                                roles |-> c.payload.roles] }
        ELSE me.status = 401 /\ me.code = "NO_SESSION" /\ me.body = {}

\* The session of user u2 has been resolved in the last second of its
\* life.
C19_Witness ==
    /\ me.status = 200
    /\ me.at = T0 + SessionTtl
    /\ \E b \in me.body : b.user_id = "u2" /\ b.email = "c@d.com"

\* The same cookie has been refused one second later.
MeRefusedAfterExpiry ==
    /\ me.status = 401
    /\ me.at = T0 + SessionTtl + 1
    /\ me.cookie = { OtherToken }

(***************************************************************************)
(* The other routes of fetch(): logout, origin guard, migrations, errors   *)
(***************************************************************************)
\* C21: a POST /auth/logout that the origin guard lets through is answered
\* 200 {success, message} whatever cookie it presents, none included, and
\* the response sets one cookie with the name, domain and path of the
\* cookie the exchange sets, an empty value and Max-Age=0.
C21_LogoutClearsSession ==
    (GwAnswered /\ gw.in.path = "/auth/logout" /\ gw.in.method = "POST"
       /\ handleCORS(gw.in) = {}) =>
        /\ gw.resp.status = 200
        /\ gw.resp.body = { [success |-> TRUE, message |-> "Logged out"] }
        /\ Cardinality(gw.resp.cookie) = 1
        /\ \A c \in gw.resp.cookie :
              LET issued == SessionCookie(OtherToken)
              IN  /\ c.name = issued.name
                  /\ c.domain = issued.domain
                  /\ c.path = issued.path
                  /\ c.value = ""
                  /\ c.maxAge = {0}

\* A logout presenting a valid session cookie from an allowed origin has
\* been answered.
C21_Witness ==
    /\ GwAnswered /\ gw.route = "logout"
    /\ gw.in.cookie = { OtherToken } /\ CookieVerifies(gw.in.cookie, gw.at)
    /\ gw.in.origin = { "https://flexifunnels.com" }
    /\ gw.resp.status = 200

\* A logout presenting no cookie has been answered 200 as well.
LogoutWithoutCookie ==
    GwAnswered /\ gw.route = "logout" /\ gw.in.cookie = {} /\ gw.resp.status = 200

\* The request answered by the last step carries a non-empty Origin header.
HasOrigin == GwAnswered /\ TruthyStr(gw.in.origin)

\* What the origin guard owes a request with an Origin header: a handler
\* only for an allowed origin, the allow response and no handler for a
\* preflight from an allowed origin, 403 FORBIDDEN and nothing else for any
\* other origin.
GuardApplied ==
    IF gw.in.origin \subseteq ALLOWED_ORIGINS
    THEN IF gw.in.method = "OPTIONS"
         THEN /\ gw.route = "cors"
              /\ gw.resp.status = 204
              /\ \A o \in gw.in.origin :
                    gw.resp.headers =
                      [n \in { "access-control-allow-origin",
                               "access-control-allow-methods",
                               "access-control-allow-headers",
                               "access-control-allow-credentials",
                               "access-control-max-age" } |->
                         IF n = "access-control-allow-origin" THEN o
                         ELSE IF n = "access-control-allow-methods"
                         THEN "POST, GET, OPTIONS"
                         ELSE IF n = "access-control-allow-headers"
                         THEN "Content-Type, X-Requested-With, Authorization"
                         ELSE IF n = "access-control-allow-credentials" THEN "true"
                         ELSE "86400"]
              /\ gw.upstream = << >> /\ gw.sql = << >> /\ gw.resp.cookie = {}
         ELSE gw.route # "cors"
    ELSE /\ gw.route = "cors"
         /\ gw.resp.status = 403 /\ gw.resp.code = "FORBIDDEN"
         /\ gw.resp.form = "error-json"
         /\ gw.upstream = << >> /\ gw.sql = << >> /\ gw.resp.cookie = {}

\* C22, as claimed: the origin guard is applied to every request with an
\* Origin header, on any path and method, and a request without one
\* bypasses it.
C22_GuardOnEveryPath ==
    /\ HasOrigin => GuardApplied
    /\ (GwAnswered /\ gw.in.origin = {}) => gw.route # "cors"

\* C22, amended: the origin guard is applied to every request with a
\* non-empty Origin header on any path other than /migrate and
\* /auth/health, on any method; a request without an Origin header, or
\* with an empty one, bypasses it, and so does every request to /migrate
\* or /auth/health, whatever its origin and method.
C22_OriginGuardCoverage ==
    /\ (HasOrigin /\ gw.in.path \notin { "/migrate", "/auth/health" }) => GuardApplied
    /\ (GwAnswered /\ ~TruthyStr(gw.in.origin)) => gw.route # "cors"
    /\ (GwAnswered /\ gw.in.path \in { "/migrate", "/auth/health" }) => gw.route # "cors"

\* A preflight for a protected path from an allowed origin, with a valid
\* session cookie, has been answered by the guard.
C22_Witness ==
    /\ HasOrigin /\ gw.in.origin = { "https://flexifunnels.com" }
    /\ gw.in.method = "OPTIONS" /\ gw.in.path = "/app/dashboard"
    /\ CookieVerifies(gw.in.cookie, gw.at)
    /\ gw.route = "cors" /\ gw.resp.status = 204

\* A health probe with an origin off the allow-list has been answered 200.
ForeignOriginHealth ==
    /\ HasOrigin /\ gw.in.origin = { "https://evil.example" }
    /\ gw.route = "health" /\ gw.resp.status = 200

\* The step answers a request routed to handleMigrate.
MigrateAnswered == gw'.pc = "done" /\ gw'.route = "migrate"

\* In this step the store executes the batch of the request in slot r.
BatchExecuted(r) ==
    inflight[r].pc = "batch" /\ ~inflight[r].exec /\ inflight'[r].exec

\* C23: a GET /migrate applies the schema only when ALLOW_MIGRATE equals
\* 'true'.  With the flag unset or different it is answered 403 FORBIDDEN,
\* no statement is sent and the store stays as it is; with the flag set
\* the batch is sent, and the request is answered 200, the batch executed
\* and every table and index in place, or 500 MIGRATION_FAILED, the batch
\* executed or not.  The schema changes in no other step than the
\* execution of such a batch, which leaves every table and index in place
\* and, on a store that is already migrated, the rows of sso_users and
\* jwt_seen as they were.
C23_MigrateGated ==
    [][/\ MigrateAnswered =>
             /\ UNCHANGED << schema, users, jwtSeen >>
             /\ \A e \in gw'.env :
                   IF e.ALLOW_MIGRATE # { "true" }
                   THEN /\ gw'.resp.status = 403 /\ gw'.resp.code = "FORBIDDEN"
                        /\ gw'.sql = << >> /\ ~gw'.exec
                        /\ inflight' = inflight
                   ELSE \/ /\ gw'.resp.status = 200
                           /\ gw'.resp.body = { [success |-> TRUE,
                                                 message |-> "Migrations applied"] }
                           /\ gw'.exec
                           /\ schema' = SchemaObjects
                        \/ /\ gw'.resp.status = 500
                           /\ gw'.resp.code = "MIGRATION_FAILED"
       /\ \A r \in Slots :
             BatchExecuted(r) =>
                /\ inflight[r].env = { [ALLOW_MIGRATE |-> { "true" }] }
                /\ inflight[r].sql = MIGRATION_STATEMENTS
                /\ schema' = SchemaObjects
                /\ schema = SchemaObjects => users' = users /\ jwtSeen' = jwtSeen
       /\ schema' # schema => \E r \in Slots : BatchExecuted(r)]_vars

\* The migrations have been applied with success to a store that holds a
\* user and a recorded nonce.
C23_Witness ==
    /\ GwAnswered /\ gw.route = "migrate" /\ gw.resp.status = 200
    /\ gw.env = { [ALLOW_MIGRATE |-> { "true" }] }
    /\ users # << >> /\ jwtSeen # << >>

\* The migrations have been refused on a store without tables, and have
\* failed on one.
MigrateRefused ==
    /\ GwAnswered /\ gw.route = "migrate" /\ gw.resp.status = 403
    /\ gw.env = { [ALLOW_MIGRATE |-> {}] } /\ schema = {}
MigrateFailed ==
    /\ GwAnswered /\ gw.route = "migrate" /\ gw.resp.status = 500 /\ schema = {}

\* The migrations have been answered 500 MIGRATION_FAILED although the
\* store executed the batch: every table and index is in place.
MigrateFailedAfterBatch ==
    /\ GwAnswered /\ gw.route = "migrate" /\ gw.resp.code = "MIGRATION_FAILED"
    /\ gw.exec /\ schema = SchemaObjects

\* The codes of the worker's JSON errors outside the exchange.
GatewayErrorCodes == { "FORBIDDEN", "NO_SESSION", "SSO_HANDOFF_FAILED", "MIGRATION_FAILED" }

\* The last step answered with a failure of the worker's own making (a
\* response passed through from the upstream is not one).
WorkerFailure == GwAnswered /\ gw.resp.status >= 400 /\ gw.resp.proxied = {}

StructuredError ==
    /\ gw.resp.form = "error-json"
    /\ gw.resp.headers = [n \in { "content-type" } |-> "application/json"]
    /\ gw.resp.code \in GatewayErrorCodes

\* C24: every failure response the worker produces, the one for an unknown
\* route included, is a JSON error {error, code, message?} with a code of
\* the fixed list.
C24_FailuresStructured == WorkerFailure => StructuredError

\* C24, as coded: every failure but the one for an unknown route is such a
\* JSON error; an unknown route is answered 404 with the text "Not Found".
FailuresStructuredAsCoded ==
    WorkerFailure =>
        IF gw.route = "not-found"
        THEN gw.resp.status = 404 /\ gw.resp.form = "text"
             /\ gw.resp.body = { [text |-> "Not Found"] }
        ELSE StructuredError

(***************************************************************************)
(* The key cache: getFlexiJWKS                                             *)
(***************************************************************************)
\* The request of slot r after the step: in its slot, or answered.
After(r) == IF req'[r].pc # "idle" THEN req'[r] ELSE last'

\* The step is the arrival of a request in slot r that goes as far as
\* getFlexiJWKS, and the return of the fetch getFlexiJWKS awaits in slot r.
CallsGetJwks(r) ==
    /\ req[r].pc = "idle"
    /\ req'[r].pc # "idle" \/ (last'.pc = "done" /\ req' = req)
    /\ Len(After(r).steps) >= 3
    /\ After(r).steps[3] \in { "jwks-cache", "jwks-fetch" }
FetchArrives(r) ==
    /\ req[r].pc = "fetch"
    /\ req'[r].pc # "fetch"
    /\ After(r).keys # {}

\* The key set the endpoint answered to the fetch of slot r.
ServedKeys(r) == { a.keys : a \in { x \in req[r].served : x.kind = "keys" } }

\* The step is the endpoint's answer to the fetch of slot r.
EndpointAnswers(r) ==
    req[r].pc = "fetch" /\ req[r].served = {} /\ req'[r].served # {}

\* No request was served a cache entry ten minutes or more after the start
\* of the fetch that produced the entry.
NeverServedStale ==
    \A s \in Requests : \A c \in s.hit : s.d0 - c.started < 10 * 60 * 1000

\* C25: a getFlexiJWKS call that finds the cache populated with an expiry
\* later than now (to the millisecond) returns the cached key set and
\* fetches nothing; any other call fetches: the endpoint answers with the
\* key set it serves then, and when that set arrives it is stored with the
\* expiry (start of the call) + 10 minutes and returned.  No entry is ever
\* served 10 minutes or more after the start of the fetch that produced it.
C25_CacheHitOrFetch ==
    [][/\ \A r \in Slots :
            CallsGetJwks(r) =>
                IF \E c \in jwksCache : c.expires > DateNow(now, ms)
                THEN /\ After(r).pc # "fetch"
                     /\ After(r).steps[3] = "jwks-cache"
                     /\ After(r).keys = { c.data : c \in jwksCache }
                     /\ jwksCache' = jwksCache
                ELSE /\ After(r).pc = "fetch"
                     /\ After(r).keys = {}
                     /\ jwksCache' = jwksCache
       /\ \A r \in Slots :
            EndpointAnswers(r) =>
                \A a \in req'[r].served : a.kind = "keys" => a.keys = jwksRemote
       /\ \A r \in Slots :
            FetchArrives(r) =>
                /\ After(r).keys = ServedKeys(r)
                /\ \E c \in jwksCache' :
                      /\ jwksCache' = { c }
                      /\ { c.data } = ServedKeys(r)
                      /\ c.expires = req[r].d0 + 10 * 60 * 1000
                      /\ c.started = req[r].d0
       /\ NeverServedStale']_vars

\* A request has been served from the cache 599.2 seconds after the start
\* of the fetch that filled it: the fetch started at millisecond 900 of
\* second T0, the request came at millisecond 100 of second T0 + 600.
C25_Witness ==
    /\ Answered /\ last.d0 = DateNow(T0 + 600, 100)
    /\ \E c \in last.hit : c.started = DateNow(T0, 900) /\ last.keys = { c.data }

\* A request arriving 600 seconds to the millisecond after the start of the
\* fetch that filled the cache waits for a fetch of its own.
CacheExpiredAtTtl ==
    /\ req[1].pc = "fetch" /\ req[1].d0 = DateNow(T0 + 600, 100)
    /\ \E c \in jwksCache : c.started = DateNow(T0, 100)

\* C26: however the getFlexiJWKS calls that found the cache empty or
\* expired interleave, the call whose fetch arrives returns the key set the
\* endpoint served it and replaces the cache by that set with the expiry
\* (start of that call) + 10 minutes, whatever the cache held; the cache
\* changes in no other step, so that it always holds the data and the
\* expiry of one and the same call, the last that wrote.
C26_RefreshRaceSafe ==
    [][/\ \A r \in Slots :
            EndpointAnswers(r) =>
                \A a \in req'[r].served : a.kind = "keys" => a.keys = jwksRemote
       /\ \A r \in Slots :
            FetchArrives(r) =>
                /\ After(r).keys = ServedKeys(r)
                /\ \E k \in ServedKeys(r) :
                      jwksCache' = { [data |-> k,
                                      expires |-> req[r].d0 + 10 * 60 * 1000,
                                      started |-> req[r].d0] }
       /\ jwksCache' # jwksCache => \E r \in Slots : FetchArrives(r)]_vars

\* Two calls raced: the one answered last started first, and its key set
\* and expiry have replaced the other key set and the later expiry that the
\* call that started after it had written.
C26_Witness ==
    /\ Answered
    /\ \E o \in last.over :
          /\ o.started > last.d0
          /\ { o.data } # last.keys
          /\ \E c \in jwksCache :
                /\ jwksCache = { c }
                /\ { c.data } = last.keys
                /\ c.started = last.d0
                /\ c.expires < o.expires

\* The step ends the wait of slot r for the key set.
FetchEnds(r) == req[r].pc = "fetch" /\ req'[r].pc # "fetch"

\* C27: a request that waited for the key set (the cache was empty or
\* expired) either got the set the endpoint answered with, or, the fetch
\* having failed (rejected, status not OK, body no JSON), is answered 401
\* JWT_INVALID at once: no key set is used, a cached one neither, the cache
\* stays as it was and the nonce is not recorded.
C27_FetchFailureFailsClosed ==
    [][\A r \in Slots :
          FetchEnds(r) =>
              \/ /\ After(r).keys = ServedKeys(r) /\ ServedKeys(r) # {}
                 /\ \E c \in jwksCache' :
                       jwksCache' = { c } /\ { c.data } = ServedKeys(r)
                                         /\ c.started = req[r].d0
              \/ /\ After(r).pc = "done"
                 /\ After(r).resp = errorResponse("JWT_INVALID", 401)
                 /\ After(r).keys = {} /\ After(r).key = {}
                 /\ jwksCache' = jwksCache
                 /\ jwtSeen' = jwtSeen /\ jtiCalls' = jtiCalls]_vars

\* The fetch for a valid assertion with nonce n1 has failed while the
\* cache held an expired key set that would have verified the assertion:
\* the answer is 401 and the nonce is not recorded.
C27_Witness ==
    /\ Answered /\ last.error = "Failed to fetch JWKS: 500"
    /\ last.resp = errorResponse("JWT_INVALID", 401)
    /\ last.in = BaseReq(BaseTok)
    /\ "n1" \notin DOMAIN jwtSeen
    /\ \E c \in jwksCache :
          /\ c.expires <= last.d0
          /\ SignatureError(BaseTok, c.data) = ""

\* C28: for an assertion whose header names no key-id, the signature is
\* checked against the first key of the key set and no other: the
\* assertion passes the check exactly when the first key verifies it (one
\* signed by another key of the set is refused 401 JWT_INVALID, "Invalid
\* signature"), and with an empty key set it is refused 401 JWT_INVALID,
\* "No matching key found in JWKS".
C28_NoKidFirstKeyOnly ==
    \A s \in Requests :
        (s.keys # {} /\ ~TruthyStr(Tok(s).kid)) =>
            \A ks \in s.keys :
                IF Len(ks) = 0
                THEN /\ s.key = {}
                     /\ s.pc = "done" /\ s.resp = errorResponse("JWT_INVALID", 401)
                     /\ s.error = "No matching key found in JWKS"
                ELSE /\ s.key = { ks[1] }
                     /\ IF RsaVerify(ks[1], Tok(s))
                        THEN s.error = ""
                        ELSE /\ s.pc = "done"
                             /\ s.resp = errorResponse("JWT_INVALID", 401)
                             /\ s.error = "Invalid signature"

\* An assertion without key-id, signed by the second key of the key set it
\* was checked against, has been refused.
C28_Witness ==
    /\ Answered /\ ~TruthyStr(Tok(last).kid)
    /\ \E ks \in last.keys :
          /\ Len(ks) = 2
          /\ ~RsaVerify(ks[1], Tok(last)) /\ RsaVerify(ks[2], Tok(last))
    /\ last.resp = errorResponse("JWT_INVALID", 401)

\* An assertion without key-id has been refused against an empty key set,
\* and one has passed the signature check against the first key.
NoKeyInEmptySet ==
    /\ Answered /\ ~TruthyStr(Tok(last).kid) /\ last.keys = { << >> }
    /\ last.error = "No matching key found in JWKS"
FirstKeyAccepted ==
    /\ Answered /\ ~TruthyStr(Tok(last).kid) /\ last.key # {}
    /\ last.resp = errorResponse("EMAIL_MISMATCH", 401)

(***************************************************************************)
(* The claims of the assertion: order and boundaries                       *)
(***************************************************************************)
\* The claims of the request's assertion have been checked: the request has
\* a body, its assertion has three parts and the RS256 algorithm.
ClaimsChecked(s) ==
    s.t0 > 0 /\ Tok(s).kind = "token" /\ Tok(s).alg = "RS256"

\* The claims were accepted: the request went on to getFlexiJWKS.
ClaimsAccepted(s) ==
    Len(s.steps) >= 3 /\ s.steps[3] \in { "jwks-cache", "jwks-fetch" }

\* The first check that fails, in the order issuer, audience, expiry,
\* not-before, e-mail, as the error that names it; "" when none fails.
\* expired(tok, t) is the expiry check.
EarliestFailure(tok, t, expired(_, _)) ==
    IF tok.iss # FLEXI_ISS THEN "Invalid issuer"
    ELSE IF tok.aud # FLEXI_AUD THEN "Invalid audience"
    ELSE IF expired(tok, t) THEN "Token expired"
    ELSE IF \E b \in tok.nbf : b > t THEN "Token not yet valid"
    ELSE IF ~TruthyStr(tok.email) THEN "Missing email claim"
    ELSE ""

\* The expiry check of the design: an expiry, if present, is in the future.
ExpiredAsSpecified(tok, t) == \E e \in tok.exp : ~(e > t)
\* The expiry check of the code: payload.exp && payload.exp < now.
ExpiredAsCoded(tok, t) == \E e \in tok.exp : e # 0 /\ e < t

OrderOfChecks(expired(_, _)) ==
    \A s \in Requests :
        ClaimsChecked(s) =>
            LET first == EarliestFailure(Tok(s), s.t0, expired)
            IN  /\ first # "" =>
                     /\ s.pc = "done"
                     /\ s.resp = errorResponse("JWT_INVALID", 401)
                     /\ s.error = first
                /\ ~TruthyStr(Tok(s).email) =>
                     s.pc = "done" /\ s.resp = errorResponse("JWT_INVALID", 401)

\* C29: the claims are checked in the order issuer, audience, expiry,
\* not-before, e-mail, and an assertion that fails one or several of the
\* checks is answered 401 JWT_INVALID with the error of the earliest check
\* it fails; an assertion without e-mail, or with an empty one, is always
\* refused.
C29_EarliestFailureReported == OrderOfChecks(ExpiredAsSpecified)

\* C29, with the expiry check as coded: the order holds.
EarliestFailureAsCoded == OrderOfChecks(ExpiredAsCoded)

\* An assertion with a wrong audience, a past expiry and no e-mail has been
\* refused for its audience.
AudienceBeforeExpiry ==
    /\ Answered /\ ClaimsChecked(last)
    /\ Tok(last).iss = FLEXI_ISS /\ Tok(last).aud # FLEXI_AUD
    /\ Tok(last).exp = { T0 - 1 } /\ Tok(last).email = {}
    /\ last.error = "Invalid audience"

\* C30: no leeway.  An assertion with an exp claim, whatever its value, is
\* accepted only if exp > now, and one with an nbf claim only if
\* nbf <= now, now being the second the claims are checked at.
C30_TemporalBoundaries ==
    \A s \in Requests :
        (ClaimsChecked(s) /\ ClaimsAccepted(s)) =>
            /\ \A e \in Tok(s).exp : e > s.t0
            /\ \A b \in Tok(s).nbf : b <= s.t0

\* C30, as coded: an exp of 0 is not looked at and an exp equal to now is
\* accepted; the not-before boundary is as claimed.
TemporalBoundariesAsCoded ==
    \A s \in Requests :
        (ClaimsChecked(s) /\ ClaimsAccepted(s)) =>
            /\ \A e \in Tok(s).exp : e = 0 \/ e >= s.t0
            /\ \A b \in Tok(s).nbf : b <= s.t0

\* An assertion whose exp is the very second of the check, and one whose
\* nbf is, have been accepted.
ExpNowAccepted ==
    /\ Answered /\ ClaimsAccepted(last) /\ Tok(last).exp = { last.t0 }
NbfNowAccepted ==
    /\ Answered /\ ClaimsAccepted(last) /\ Tok(last).nbf = { last.t0 }

(***************************************************************************)
(* The handoff path as a whole                                             *)
(***************************************************************************)
\* The place of step n among the steps request s went through, 0 when it
\* did not go through it.
Position(s, n) ==
    IF \E i \in 1..Len(s.steps) : s.steps[i] = n
    THEN CHOOSE i \in 1..Len(s.steps) :
            s.steps[i] = n /\ \A j \in 1..Len(s.steps) : s.steps[j] = n => i <= j
    ELSE 0

\* Step a ran before step b whenever b ran.
Before(s, a, b) == Position(s, b) > 0 => (Position(s, a) > 0 /\ Position(s, a) < Position(s, b))

SignatureVerified(s) ==
    /\ s.keys # {} /\ s.key # {}
    /\ \A k \in s.key : RsaVerify(k, Tok(s))

\* The steps after the verification of the assertion, each only after the
\* earlier ones succeeded: replay guard (for an assertion with a nonce),
\* user lookup, issuance with the cookie.
LaterStepsInOrder(s) ==
    /\ Position(s, "replay") > 0 =>
          /\ SignatureVerified(s) /\ ClaimsError(Tok(s), s.t0) = ""
          /\ ToLowerCase(CHOOSE e \in Tok(s).email : TRUE) = ToLowerCase(BodyEmail(s))
    /\ Position(s, "user") > 0 =>
          /\ SignatureVerified(s) /\ ClaimsError(Tok(s), s.t0) = ""
          /\ ToLowerCase(CHOOSE e \in Tok(s).email : TRUE) = ToLowerCase(BodyEmail(s))
          /\ IF TruthyStr(Tok(s).jti)
             THEN Before(s, "replay", "user") /\ s.isNew = { TRUE }
             ELSE Position(s, "replay") = 0
    /\ Position(s, "204") > 0 =>
          /\ Before(s, "user", "204")
          /\ \E u \in s.user : u.status # "suspended"
          /\ s.resp.cookie # {}
    /\ s.resp.cookie # {} => Position(s, "204") > 0

\* C31: the steps of the handoff path run in the order signature
\* verification against the key set, claims validation, replay guard, user
\* lookup, issuance and cookie, each only if all earlier ones succeeded: the
\* claims of an assertion are checked only once its signature is verified.
C31_PipelineOrder ==
    \A s \in Requests :
        /\ Before(s, "signature", "claims")
        /\ Position(s, "claims") > 0 => SignatureVerified(s)
        /\ LaterStepsInOrder(s)

\* C31, as coded: the claims are checked first, on the payload as it came,
\* then the key set is obtained and the signature verified, only for an
\* assertion whose claims passed; the later steps are in the claimed order.
PipelineOrderAsCoded ==
    \A s \in Requests :
        /\ Before(s, "claims", "signature")
        /\ Position(s, "signature") > 0 => ClaimsError(Tok(s), s.t0) = ""
        /\ (Position(s, "claims") > 0 /\ ClaimsError(Tok(s), s.t0) # "") =>
              s.keys = {} /\ s.key = {} /\ s.error = ClaimsError(Tok(s), s.t0)
        /\ LaterStepsInOrder(s)

\* An expired assertion with a forged signature has been refused for its
\* expiry, no key set having been looked at.
ExpiryBeforeSignature ==
    /\ Answered /\ last.t0 > 0
    /\ Tok(last).sig = "forged" /\ Tok(last).exp = { T0 - 1 }
    /\ last.error = "Token expired" /\ last.keys = {}

\* The request of slot r carries an assertion with the RS256 algorithm,
\* checked claims and a signature verified by the selected key, in a body
\* whose e-mail is the assertion's up to case.
FullyVerified(s) ==
    /\ s.t0 > 0 /\ Tok(s).kind = "token" /\ Tok(s).alg = "RS256"
    /\ Tok(s).iss = FLEXI_ISS /\ Tok(s).aud = FLEXI_AUD
    /\ ~ExpRejected(Tok(s), s.t0) /\ ~NbfRejected(Tok(s), s.t0)
    /\ TruthyStr(Tok(s).email)
    /\ SignatureVerified(s)
    /\ \E e \in Tok(s).email : ToLowerCase(e) = ToLowerCase(BodyEmail(s))

\* The step answers an exchange request with 400, 401, or the 403 of the
\* origin guard.
RefusedEarly ==
    /\ last'.pc = "done"
    /\ \/ last'.resp.status \in { 400, 401 }
       \/ last'.resp.status = 403 /\ last'.resp.code = "FORBIDDEN"

\* C32: a nonce enters the replay store only in a step of a request that is
\* fully verified (algorithm, claims, signature, e-mail of the body), and it
\* is the nonce of that request's assertion; a step that answers 400
\* INVALID_BODY or INVALID_CONTENT_TYPE, 401 JWT_INVALID or EMAIL_MISMATCH,
\* or the 403 of the origin guard leaves the replay store as it was, and the
\* request answered never called the replay guard.
C32_NonceOnlyAfterVerification ==
    [][/\ \A n \in DOMAIN jwtSeen' \ DOMAIN jwtSeen :
             \E r \in Slots :
                 /\ req[r].pc = "jti"
                 /\ FullyVerified(req[r])
                 /\ Tok(req[r]).jti = { n }
       /\ RefusedEarly =>
             /\ jwtSeen' = jwtSeen /\ jtiCalls' = jtiCalls
             /\ Position(last', "replay") = 0]_vars

\* A validly signed assertion with nonce n1 has been refused for the e-mail
\* of its body, and n1 is not recorded.
C32_Witness ==
    /\ Answered /\ last.resp = errorResponse("EMAIL_MISMATCH", 401)
    /\ SignatureVerified(last) /\ Tok(last).jti = { "n1" }
    /\ "n1" \notin DOMAIN jwtSeen

\* The nonce has been recorded by a request that was refused afterwards for
\* its user.
NonceRecordedThenRefused ==
    /\ Answered /\ last.resp.status = 403 /\ last.resp.code = "USER_NOT_ALLOWED"
    /\ "n1" \in DOMAIN jwtSeen

\* C33: an exchange answered 204 sets one cookie with Max-Age 600 whose
\* value is a session token with the configured issuer and audience, the
\* user_id, email and roles of the user row the lookup returned as sub,
\* email and roles, and exp = iat + 600; the token's email is the e-mail of
\* the request body exactly and the assertion's e-mail up to case.
C33_SessionTokenContents ==
    (Answered /\ last.resp.status = 204) =>
        /\ Cardinality(last.resp.cookie) = 1
        /\ \A c \in last.resp.cookie :
              LET p == c.value.payload
              IN  /\ c.maxAge = { 600 }
                  /\ c.value.kind = "token"
                  /\ p.iss = VIBE_ISS /\ p.aud = VIBE_AUD
                  /\ \E u \in last.user :
                        p.sub = u.user_id /\ p.email = u.email /\ p.roles = u.roles
                  /\ p.exp = p.iat + 600
                  /\ p.iat >= last.t0 /\ p.iat <= now
                  /\ p.email = BodyEmail(last)
                  /\ \E e \in Tok(last).email :
                        ToLowerCase(e) = ToLowerCase(p.email)

\* An exchange whose assertion spells the e-mail A@B.com has been answered
\* 204 for the row of a@b.com with user_id usr_9 and two roles.
C33_Witness ==
    /\ Answered /\ last.resp.status = 204
    /\ Tok(last).email = { "A@B.com" } /\ BodyEmail(last) = "a@b.com"
    /\ \E c \in last.resp.cookie :
          /\ c.value.payload.sub = "usr_9"
          /\ c.value.payload.email = "a@b.com"
          /\ c.value.payload.roles = "admin,viewer"

(***************************************************************************)
(* Sessions and the upstream (checked under SpecGateway)                   *)
(***************************************************************************)
\* The step answers a request on the gateway path: GET /auth/me or a
\* request under the protected prefix.
GatewayPathStep == gw'.pc = "done" /\ gw'.route \in { "me", "protected" }

\* The request in slot r started to wait for the upstream in this step,
\* and its wait ends in this step.
StartsToWait(r) == inflight[r].pc = "idle" /\ inflight'[r].pc # "idle"
WaitEnds(r) == inflight[r].pc # "idle" /\ inflight'[r].pc = "idle"

\* C34: every step of a request on the gateway path (GET /auth/me, a
\* request under the protected prefix) leaves the store (tables and
\* schema) as it was, and its authorization outcome is the verification of
\* the presented cookie under the worker's secret at the second the
\* handler verified it, whatever the user table and the nonce table hold:
\* a protected-prefix request has a session exactly if the cookie verified
\* at that second, which is the second of its first step, and is answered
\* 401 NO_SESSION in that step without calling the upstream otherwise; a
\* request with a session keeps it, whatever happens until it is answered,
\* at that second or later; /auth/me answers 200 exactly if the cookie
\* verifies at the second of its step and 401 NO_SESSION otherwise.
C34_StatelessSessions ==
    [][/\ GatewayPathStep =>
             /\ UNCHANGED << schema, users, jwtSeen >>
             /\ gw'.end = now /\ gw'.at <= gw'.end
             /\ (\A r \in Slots : ~WaitEnds(r)) => gw'.at = now
             /\ gw'.route = "protected" =>
                   /\ gw'.session # {} <=> CookieVerifies(gw'.in.cookie, gw'.at)
                   /\ gw'.session = {} =>
                         /\ gw'.resp = GwError("NO_SESSION", 401)
                         /\ gw'.upstream = << >>
                         /\ gw'.end = gw'.at
             /\ gw'.route = "me" =>
                   /\ gw'.end = gw'.at
                   /\ gw'.resp.status = 200 <=> CookieVerifies(gw'.in.cookie, gw'.at)
                   /\ gw'.resp.status # 200 => gw'.resp = GwError("NO_SESSION", 401)
       /\ \A r \in Slots :
             /\ (StartsToWait(r) /\ inflight'[r].route = "protected") =>
                   /\ UNCHANGED << schema, users, jwtSeen >>
                   /\ inflight'[r].at = now
                   /\ inflight'[r].session # {}
                   /\ CookieVerifies(inflight'[r].in.cookie, now)
             /\ (inflight[r].pc # "idle" /\ inflight[r].route = "protected"
                   /\ inflight'[r] # inflight[r]) =>
                   /\ UNCHANGED << schema, users, jwtSeen >>
                   /\ LET g == IF WaitEnds(r) THEN gw' ELSE inflight'[r]
                      IN  /\ g.in = inflight[r].in /\ g.at = inflight[r].at
                          /\ g.session = inflight[r].session
                          /\ g.upstream = inflight[r].upstream
       /\ me'.status # 0 =>
             /\ me'.at = now
             /\ UNCHANGED << schema, users, jwtSeen >>
             /\ me'.status = 200 <=> CookieVerifies(me'.cookie, me'.at)
             /\ me'.status # 200 => me'.status = 401 /\ me'.code = "NO_SESSION"]_vars

\* A protected-prefix request has been proxied for the session of
\* a@b.com while that user's row is suspended.
C34_Witness ==
    /\ GwAnswered /\ gw.route = "protected"
    /\ \E p \in gw.session : p.email = "a@b.com"
    /\ Len(gw.upstream) = 1
    /\ "a@b.com" \in DOMAIN users /\ users["a@b.com"].status = "suspended"

\* A protected-prefix request whose cookie verified in the last second of
\* its life waits for the upstream while GET /auth/me, a second later,
\* has refused that cookie.
RefusedByMeWhileWaiting ==
    /\ me.status = 401 /\ me.at = T0 + SessionTtl + 1
    /\ \E r \in Slots :
          /\ WaitsForUpstream(r) /\ inflight[r].at = T0 + SessionTtl
          /\ inflight[r].in.cookie = me.cookie

\* Such a request has been answered after the expiry of its session: with
\* the upstream's page, and with the handoff redirect.
ProxiedAfterExpiry ==
    /\ GwAnswered /\ gw.route = "protected" /\ gw.resp.proxied # {}
    /\ gw.resp.status = 200
    /\ gw.at = T0 + SessionTtl /\ gw.end = T0 + SessionTtl + 1
RedirectedAfterExpiry ==
    /\ GwAnswered /\ gw.route = "protected" /\ gw.resp.status = 302
    /\ gw.at = T0 + SessionTtl /\ gw.end = T0 + SessionTtl + 1

\* GET /auth/me has answered 200 for the session of a@b.com while the
\* store has no user table at all.
MeWithoutUserTable ==
    /\ GwAnswered /\ gw.route = "me" /\ gw.resp.status = 200
    /\ \E b \in gw.resp.body : b.email = "a@b.com"
    /\ "sso_users" \notin schema

\* What request g has sent to the upstream: nothing unless it is routed to
\* the protected prefix and its cookie verified at the second the handler
\* checked it; then one request at most, to the upstream origin and with
\* the identity of the verified session.
UpstreamUse(g) ==
    /\ Len(g.upstream) <= 1
    /\ g.route # "protected" => g.upstream = << >>
    /\ g.upstream # << >> =>
          /\ g.route = "protected" /\ StartsWithPrefix(g.in.path)
          /\ CookieVerifies(g.in.cookie, g.at)
          /\ \E p \in g.session :
                /\ \E c \in g.in.cookie : c.payload = p
                /\ \A i \in DOMAIN g.upstream :
                      /\ g.upstream[i].origin = VIBE_ORIGIN
                      /\ g.upstream[i].kind \in { "handoff", "proxy" }
                      /\ g.upstream[i].headers["x-user-id"] = p.sub
                      /\ g.upstream[i].headers["x-user-email"] = p.email

\* C37: the worker has sent a request to the upstream only for a request
\* routed to the protected prefix whose cookie was verified, in that same
\* request, at the second its handler checked it; it sent one request at
\* most, to the upstream origin and with the identity of the verified
\* session; every other route (preflight and origin guard, /auth/me,
\* /auth/logout, /auth/health, /migrate, unknown paths) has sent none.
\* This holds of the request just answered and of every request that
\* waits at an await.
C37_UpstreamIsolation ==
    /\ GwAnswered => UpstreamUse(gw)
    /\ \A r \in Slots : inflight[r].pc # "idle" => UpstreamUse(inflight[r])

\* A POST under the protected prefix with a verified session has been
\* proxied: one request went to the upstream.
C37_Witness ==
    /\ GwAnswered /\ gw.route = "protected" /\ gw.in.method = "POST"
    /\ Len(gw.upstream) = 1 /\ gw.upstream[1].kind = "proxy"
    /\ gw.session # {} /\ gw.outcome # {}

\* An unknown path has been answered 404 for a client presenting a valid
\* session cookie, with no request to the upstream.
UnknownPathWithSession ==
    /\ GwAnswered /\ gw.route = "not-found" /\ gw.resp.status = 404
    /\ CookieVerifies(gw.in.cookie, gw.at) /\ gw.upstream = << >>

(***************************************************************************)
(* The life of a session (checked under SpecLifecycle)                     *)
(***************************************************************************)
\* The token is one the worker issued: an HS256 token with the worker's
\* HMAC over its own header and payload.
WorkerIssued(c) == CookieVerifies({ c }, c.payload.iat)

\* With the logouts remembered in tr, the answers g (gateway) and m
\* (GET /auth/me) treat a token the worker issued that was presented at a
\* logout by its expiry alone, at the second the handler verified it
\* (g.at, m.at).
StillHonoured(tr, g, m) ==
    \A c \in tr.logout :
        WorkerIssued(c) =>
           /\ (g.pc = "done" /\ g.route = "protected" /\ c \in g.in.cookie) =>
                 /\ g.session # {} <=> g.at <= c.payload.exp
                 /\ g.session # {} => Len(g.upstream) = 1 \/ g.in.body # ""
                 /\ g.session = {} => g.resp = GwError("NO_SESSION", 401)
           /\ (g.pc = "done" /\ g.route = "me" /\ c \in g.in.cookie) =>
                 /\ g.resp.status = 200 <=> g.at <= c.payload.exp
                 /\ g.resp.status # 200 => g.resp = GwError("NO_SESSION", 401)
           /\ (m.status # 0 /\ c \in m.cookie) =>
                 /\ m.status = 200 <=> m.at <= c.payload.exp
                 /\ m.status # 200 => m.status = 401 /\ m.code = "NO_SESSION"

\* The requests that wait for the upstream treat such a token likewise:
\* each was given a session at a second up to the token's exp.
WaitingHonoured(tr, fl) ==
    \A c \in tr.logout : \A r \in Slots :
        (WorkerIssued(c) /\ fl[r].pc # "idle" /\ c \in fl[r].in.cookie) =>
            fl[r].session = { c.payload } /\ fl[r].at <= c.payload.exp

\* C35: once a token the worker issued has been presented at an answered
\* POST /auth/logout, a GET /auth/me or a protected-prefix request that
\* presents it is still authorized (200 with the identity, or a session
\* and a call of the upstream) when its handler verifies the token at any
\* second up to the token's exp, and refused 401 NO_SESSION when it does
\* so after it; a request authorized before the logout or after it keeps
\* its session until it is answered, be it after the logout and after the
\* expiry; and the step that answers a logout leaves the tables, the
\* schema, the key cache and the requests in flight as they were.
C35_LogoutKeepsSession ==
    [][/\ StillHonoured(trail', gw', me')
       /\ WaitingHonoured(trail', inflight')
       /\ (gw'.pc = "done" /\ gw'.route = "logout") =>
             UNCHANGED << schema, users, jwtSeen, jwksCache, now, inflight >>]_vars

\* After a logout that presented the token issued to u1, a protected-prefix
\* request presenting it in the last second of its life has been given a
\* session.
C35_Witness ==
    /\ IssuedToken \in trail.logout
    /\ GwAnswered /\ gw.route = "protected" /\ gw.in.cookie = { IssuedToken }
    /\ gw.at = IssuedToken.payload.exp
    /\ gw.session = { IssuedToken.payload } /\ Len(gw.upstream) = 1

\* A protected-prefix request presenting the token was given a session in
\* the last second of the token's life, and has been answered with the
\* upstream's page a second later, after a logout that presented the token.
HonouredAfterExpiry ==
    /\ IssuedToken \in trail.logout
    /\ GwAnswered /\ gw.route = "protected" /\ gw.in.cookie = { IssuedToken }
    /\ gw.at = IssuedToken.payload.exp /\ gw.end = gw.at + 1
    /\ gw.resp.proxied # {}

\* After that logout GET /auth/me has answered 200 for the token.
MeAfterLogout ==
    /\ IssuedToken \in trail.logout
    /\ GwAnswered /\ gw.route = "me" /\ gw.in.cookie = { IssuedToken }
    /\ gw.resp.status = 200

\* After that logout the token has been refused, past its expiry.
RefusedAfterExpiry ==
    /\ IssuedToken \in trail.logout
    /\ GwAnswered /\ gw.route = "protected" /\ gw.in.cookie = { IssuedToken }
    /\ gw.at > IssuedToken.payload.exp
    /\ gw.resp = GwError("NO_SESSION", 401)

\* C36: an authorized GET of the protected root that presents a session a
\* handoff redirect was already issued for is proxied to the upstream: it
\* triggers no handoff call and no 302.
C36_HandoffOnce ==
    (/\ GwAnswered /\ gw.route = "protected" /\ gw.session # {}
     /\ IsHandoff(gw)
     /\ gw.in.cookie \cap trail.handoff # {}) =>
        /\ Len(gw.upstream) = 1
        /\ gw.upstream[1].kind = "proxy"
        /\ gw.resp.status # 302

\* What the code does: every authorized GET of the protected root calls the
\* handoff endpoint, whatever was answered for the session before, and no
\* other request does.
HandoffOnEveryRootGet ==
    (GwAnswered /\ gw.route = "protected" /\ gw.session # {}) =>
        /\ Len(gw.upstream) = 1
        /\ gw.upstream[1].kind = "handoff" <=> IsHandoff(gw)

\* A second handoff redirect has been issued for the session of u1.
SecondHandoffRedirect ==
    /\ IssuedToken \in trail.handoff
    /\ GwAnswered /\ gw.in.cookie = { IssuedToken } /\ IsHandoff(gw)
    /\ gw.resp.status = 302 /\ gw.upstream[1].kind = "handoff"

(***************************************************************************)
(* The store failing (checked under SpecStore)                             *)
(***************************************************************************)
\* C38: an exchange whose INSERT into the replay store was rejected with a
\* uniqueness conflict is answered 409 REPLAYED_JTI; one whose INSERT was
\* rejected with any other error, before the store executed it or after
\* it did, or whose user lookup was rejected, is answered 500
\* INTERNAL_ERROR; neither sets a cookie.
C38_StoreFailureHandling ==
    Answered =>
        \A f \in last.fault :
           /\ (f.op = "insert" /\ f.error = UniqueError) =>
                 last.resp = errorResponse("REPLAYED_JTI", 409)
           /\ (f.op = "lookup" \/ f.error # UniqueError) =>
                 last.resp = errorResponse("INTERNAL_ERROR", 500)
           /\ last.resp.cookie = {}

\* The INSERT of a verified request was rejected because the store was out
\* of reach, and the request has been answered 500 INTERNAL_ERROR.
C38_Witness ==
    /\ Answered /\ last.fault = { [op |-> "insert", error |-> NetworkError] }
    /\ last.resp.status = 500 /\ last.resp.code = "INTERNAL_ERROR"
    /\ last.resp.cookie = {}

\* The await of the INSERT rejected after the store had recorded the
\* nonce: the request has been answered 500 and the nonce stays recorded.
InsertRecordedThenRejected ==
    /\ Answered /\ last.fault = { [op |-> "insert", error |-> NetworkError] }
    /\ \E i \in last.ins : i.changes = 1
    /\ last.resp = errorResponse("INTERNAL_ERROR", 500)
    /\ TheJti(last) \in DOMAIN jwtSeen

\* The INSERT was rejected with a uniqueness conflict and the request has
\* been answered 409.
UniqueConflictAnswered409 ==
    /\ Answered /\ last.fault = { [op |-> "insert", error |-> UniqueError] }
    /\ last.resp.status = 409 /\ last.resp.code = "REPLAYED_JTI"

\* The user lookup failed after the nonce had been recorded: the request
\* has been answered 500, the nonce stays recorded.
LookupFailedAfterInsert ==
    /\ Answered
    /\ last.fault = { [op |-> "lookup", error |-> NetworkError] }
    /\ last.resp.status = 500 /\ last.isNew = { TRUE }
    /\ "n1" \in DOMAIN jwtSeen

\* The store has no tables: the INSERT was rejected and the request has
\* been answered 500.
InsertWithoutTable ==
    /\ Answered
    /\ last.fault = { [op |-> "insert", error |-> NoTableError("jwt_seen")] }
    /\ last.resp.status = 500 /\ schema = {}

====
